---------------------------- MODULE Spec2Model ----------------------------
(***************************************************************************)
(* A model of the simulation core of Dungeon-Adventure: the Game object of *)
(* src/src/model/Game.py (game state machine, per-frame update, room       *)
(* transition, room-change side effects) together with the collaborators   *)
(* it calls.  Game.py is translated from its source.  The collaborators    *)
(* whose source is not part of the tree (RoomTransitionManager,            *)
(* DungeonManager, the hero and enemy classes) are modelled from the       *)
(* design document; each such definition says so in its comment.           *)
(*                                                                         *)
(* Lengths are pixels, times are tenths of a second.                       *)
(***************************************************************************)
EXTENDS Integers, Sequences, FiniteSets, TLC

VARIABLES
    game,   \* the fields of the Game object
    last,   \* what the most recent operation did (its name, the steps of
            \* Game.update it ran, the exception it raised)
    hist    \* history of the transition started last (time fed to it, how
            \* often its callback ran)

vars == <<game, last, hist>>

None == "None"

(***************************************************************************)
(* Enumerations                                                            *)
(***************************************************************************)
HeroType == {"KNIGHT", "ARCHER", "CLERIC"}

GameState == {"MENU", "PLAYING", "PAUSED", "GAME_OVER", "VICTORY", "HERO_SELECT"}

DungeonTemplate == {"SQUARE", "DEMO"}

Direction == {"UP", "DOWN", "LEFT", "RIGHT"}

(***************************************************************************)
(* Program constants                                                       *)
(***************************************************************************)
\* duration=0.8 of the fade started by _start_room_transition, in tenths
TransitionDuration == 8

\* hero_height = 16: the height of the feet-level band of the door check
FeetHeight == 16

\* DungeonManager((3, 3), ...): the dungeon grid
GridWidth == 3

GridHeight == 3

\* max_health of the three hero classes (MockCharacterStats)
KnightMaxHealth == 375

ArcherMaxHealth == 150

ClericMaxHealth == 250

\* damage of the three hero classes (MockCharacterStats)
KnightDamage == 55

ArcherDamage == 40

ClericDamage == 85

(***************************************************************************)
(* Bounds of the model                                                     *)
(***************************************************************************)
\* health a boss starts with
BossMaxHealth == 80

\* damage of one boss attack that lands
BossDamage == 200

\* tenths of a second an attack swing and its cooldown last
AttackCooldown == 10

\* tenths of a second the special ability cools down
SpecialCooldown == 7

\* frame times the clock hands to Game.update, in tenths of a second
DtChoices == {3, 8}

\* distances handle_input can move the hero in one frame
MoveChoices == {0 - 368, 0, 368}

\* the boxes of a hero the door check is tried on: widths and heights from
\* 1 to MaxBoxSide and those of the hero classes, at the walls and in the
\* middle of a room
MaxBoxSide == 9

BoxSides == 1..MaxBoxSide \cup {64}

BoxXs == {0, 368, 736}

BoxYs == {0, 436}

\* the clock reading, in tenths of a second, up to which run() is followed
MaxTicks == 48

\* the frame times of the frames of run() that are followed
FrameTimes == {8}

\* the width the window is created with, and the widths a resize reports
ScreenWidth == 800

ResizeWidths == {ScreenWidth}

Min(a, b) == IF a < b THEN a ELSE b

\* F of x, with x evaluated once
With(x, F(_)) == CHOOSE r \in {F(v) : v \in {x}} : TRUE

Max(a, b) == IF a > b THEN a ELSE b

\* values handed in as a hero type that are no HeroType member
InvalidHeroTypes == {"WIZARD", None}

(***************************************************************************)
(* Rooms and the dungeon manager (RoomDungeonSystem.py is not in the       *)
(* tree; modelled from the design document, sections 3, 4.1 and 4.4).      *)
(* A room is named by its grid coordinate <<col, row>>.                    *)
(***************************************************************************)
\* the cells a template fills with rooms
RoomsOf(template) ==
    IF template = "SQUARE"
    THEN {<<0, 0>>, <<1, 0>>, <<0, 1>>, <<1, 1>>}
    ELSE {<<0, 0>>, <<1, 0>>}

StartRoomOf(template) == <<0, 0>>

BossRoomOf(template) == IF template = "SQUARE" THEN <<1, 1>> ELSE <<1, 0>>

is_boss_room(template, room) == room = BossRoomOf(template)

is_start_room(template, room) == room = StartRoomOf(template)

Neighbor(room, dir) ==
    CASE dir = "LEFT"  -> <<room[1] - 1, room[2]>>
      [] dir = "RIGHT" -> <<room[1] + 1, room[2]>>
      [] dir = "UP"    -> <<room[1], room[2] - 1>>
      [] dir = "DOWN"  -> <<room[1], room[2] + 1>>

\* a room has a door exactly towards each neighbouring room
HasDoor(template, room, dir) ==
    /\ Neighbor(room, dir) \in RoomsOf(template)
    /\ Neighbor(room, dir)[1] \in 0..(GridWidth - 1)
    /\ Neighbor(room, dir)[2] \in 0..(GridHeight - 1)

room_width(template, room) == IF is_boss_room(template, room) THEN 1536 ELSE 800

room_height(template, room) == 600

room_floor_y(template, room) == IF is_boss_room(template, room) THEN 520 ELSE 500

\* the point (px, py) lies in the door of the room towards dir: walk-through
\* doors stand at the side walls, interactive doors in the middle of the room
InDoor(template, room, dir, px, py) ==
    LET w  == room_width(template, room)
        fy == room_floor_y(template, room)
    IN  /\ HasDoor(template, room, dir)
        /\ py >= fy - 128 /\ py <= fy
        /\ CASE dir = "LEFT"  -> px <= 64
             [] dir = "RIGHT" -> px >= w - 64
             [] OTHER         -> px >= (w \div 2) - 64 /\ px <= (w \div 2) + 64

\* no dungeon manager (None), and no room (None)
NoDungeonManager == [template |-> None]

NoRoom == <<>>

\* DungeonManager(grid_size, csv, tileset, template)
DungeonManager(template) ==
    [template |-> template,
     current_room |-> StartRoomOf(template),
     entry_direction |-> None]

\* the door the point lies in, of the two of one class (first before second)
DoorAt(dm, first, second, px, py) ==
    IF InDoor(dm.template, dm.current_room, first, px, py) THEN first
    ELSE IF InDoor(dm.template, dm.current_room, second, px, py) THEN second
    ELSE None

\* the dungeon manager after the actor went through the door towards dir
EnterDoor(dm, dir) ==
    [dm EXCEPT !.current_room = Neighbor(dm.current_room, dir),
               !.entry_direction = dir]

\* try_enter_walkthrough_door(x, y): LEFT/RIGHT doors trigger on overlap
try_enter_walkthrough_door(dm, px, py) ==
    LET d == DoorAt(dm, "LEFT", "RIGHT", px, py)
    IN  IF d = None THEN [entered |-> FALSE, dm |-> dm]
        ELSE [entered |-> TRUE, dm |-> EnterDoor(dm, d)]

\* try_enter_interactive_door(x, y, interact): UP/DOWN doors need the
\* interact action as well
try_enter_interactive_door(dm, px, py, interact) ==
    LET d == DoorAt(dm, "UP", "DOWN", px, py)
    IN  IF d = None \/ ~interact THEN [entered |-> FALSE, dm |-> dm]
        ELSE [entered |-> TRUE, dm |-> EnterDoor(dm, d)]

\* get_player_spawn_position_for_current_room(w, h): floor-aligned, and
\* offset inward from the wall opposite to the door that was used
get_player_spawn_position_for_current_room(dm, w, h) ==
    LET rw == room_width(dm.template, dm.current_room)
        fy == room_floor_y(dm.template, dm.current_room)
        x  == CASE dm.entry_direction = "RIGHT" -> 368
                [] dm.entry_direction = "LEFT"  -> rw - w - 368
                [] OTHER                        -> (rw - w) \div 2
    IN  <<x, fy - h>>

(***************************************************************************)
(* The transition state machine (RoomTransitionManager.py is not in the    *)
(* tree; modelled from the design document, section 4.2).                  *)
(***************************************************************************)
\* RoomTransitionManager(width, height): a fresh manager is IDLE
RoomTransitionManager ==
    [is_transitioning |-> FALSE, elapsed |-> 0, duration |-> 0,
     callback |-> None, callback_done |-> FALSE]

\* start_transition(type, duration, callback): only from IDLE
start_transition(tm, duration, callback) ==
    IF tm.is_transitioning THEN tm
    ELSE [is_transitioning |-> TRUE, elapsed |-> 0, duration |-> duration,
          callback |-> callback, callback_done |-> FALSE]

\* update(dt), the timer part: the manager after dt more time
transition_update(tm, dt) ==
    IF ~tm.is_transitioning THEN tm
    ELSE LET e == Min(tm.elapsed + dt, tm.duration)
             fire == ~tm.callback_done /\ 2 * e >= tm.duration
         IN  IF e >= tm.duration
             THEN RoomTransitionManager
             ELSE [tm EXCEPT !.elapsed = e,
                             !.callback_done = tm.callback_done \/ fire]

\* update(dt), the callback part: whether this update invokes on_complete
transition_fires(tm, dt) ==
    /\ tm.is_transitioning
    /\ ~tm.callback_done
    /\ tm.callback # None
    /\ 2 * Min(tm.elapsed + dt, tm.duration) >= tm.duration

(***************************************************************************)
(* Heroes and enemies (knight.py, archer.py, cleric.py, DemonBoss.py are   *)
(* not in the tree; modelled from the design document, sections 3 and 4.3, *)
(* with the statistics of MockCharacterStats).                             *)
(***************************************************************************)
NoHero == [hero_type |-> None]

hero_max_health(hero_type) ==
    CASE hero_type = "KNIGHT" -> KnightMaxHealth
      [] hero_type = "ARCHER" -> ArcherMaxHealth
      [] hero_type = "CLERIC" -> ClericMaxHealth

hero_damage(hero_type) ==
    CASE hero_type = "KNIGHT" -> KnightDamage
      [] hero_type = "ARCHER" -> ArcherDamage
      [] hero_type = "CLERIC" -> ClericDamage

\* Knight(x, y), Archer(x, y), Cleric(x, y)
NewHero(hero_type, x, y) ==
    [hero_type |-> hero_type, x |-> x, y |-> y, width |-> 64, height |-> 64,
     health |-> hero_max_health(hero_type), is_alive |-> TRUE, ground_y |-> y,
     attack_cooldown_remaining |-> 0, special_cooldown_remaining |-> 0,
     is_attacking |-> FALSE, hit_targets |-> {}, swing_hits |-> 0]

\* hero.activate_attack(): a new swing, with an empty per-swing hit set
activate_attack(hero) ==
    [hero EXCEPT !.is_attacking = TRUE,
                 !.attack_cooldown_remaining = AttackCooldown,
                 !.hit_targets = {},
                 !.swing_hits = 0]

\* hero.activate_special_ability(): the ability starts its cooldown; what
\* else the ability does is not tracked
activate_special_ability(hero) ==
    [hero EXCEPT !.special_cooldown_remaining = SpecialCooldown]

\* hero.handle_input(keys, False): horizontal movement by dx
handle_input(hero, dx) == [hero EXCEPT !.x = hero.x + dx]

\* hero.update(dt): the timers run down; the swing ends with its cooldown
hero_update(hero, dt) ==
    LET cd == Max(0, hero.attack_cooldown_remaining - dt)
    IN  [hero EXCEPT !.attack_cooldown_remaining = cd,
                     !.special_cooldown_remaining = Max(0, @ - dt),
                     !.is_attacking = hero.is_attacking /\ cd > 0]

\* take_damage(amount) of a hero or an enemy: health never below 0, and
\* dead at 0
take_damage(actor, amount) ==
    LET h == Max(0, actor.health - amount)
    IN  [actor EXCEPT !.health = h, !.is_alive = h > 0]

\* a projectile in flight: the room it was fired in and the damage it does
Projectile(room, hero_type) ==
    [origin |-> room, damage |-> hero_damage(hero_type)]

\* the archer and the cleric attack at range: activate_attack hands a
\* projectile to the projectile manager
is_ranged(hero_type) == hero_type \in {"ARCHER", "CLERIC"}

\* DemonBoss(x, y).  Where an enemy stands is not tracked: whether a swing
\* reaches it and whether its attack lands are inputs of the frame.
DemonBoss(x, y) ==
    [kind |-> "boss", health |-> BossMaxHealth, is_alive |-> TRUE]

(***************************************************************************)
(* The Game object.                                                        *)
(*   heroes       the keys of the dict _heroes; every value is the one     *)
(*                hero object, hero                                        *)
(*   active_hero  whether _active_hero refers to hero (else it is None)    *)
(*   current_room the coordinate of the Room object _current_room, a room  *)
(*                of dungeon_manager's dungeon                             *)
(*   projectiles  projectile_manager.projectiles                           *)
(*   all_sprites, enemy_sprites                                            *)
(*                the members of the sprite groups: "hero" is the hero     *)
(*                object, "enemy" the enemy in the enemy list, and         *)
(*                "stale_enemy" an enemy that was spawned in a room left   *)
(*                since                                                    *)
(* A hit target is "current" while the enemy is in the enemy list and      *)
(* "stale" once the list was rebuilt without it.                           *)
(***************************************************************************)
\* _play_time_start is None: no play time is being measured
NoTime == 0 - 1

\* Game.__init__(screen, width, height)
NewGame(width) ==
    [state |-> "PLAYING",
     running |-> FALSE,
     width |-> width,
     is_fullscreen |-> FALSE,
     windowed_width |-> width,
     transition_manager |-> RoomTransitionManager,
     heroes |-> {},
     hero |-> NoHero,
     active_hero |-> FALSE,
     enemies |-> <<>>,
     all_sprites |-> {},
     enemy_sprites |-> {},
     projectiles |-> {},
     selected_hero_type |-> None,
     hero_selection_made |-> FALSE,
     dungeon_manager |-> NoDungeonManager,
     current_room |-> NoRoom,
     dungeon_template |-> "SQUARE",
     play_time |-> 0,
     play_time_start |-> NoTime]

(***************************************************************************)
(* An operation runs on a context:                                         *)
(*   g          the game                                                   *)
(*   steps      the steps of Game.update run so far, in order              *)
(*   suspended  the steps that ran while a transition was in flight        *)
(*   idle       update found no transition in flight when it tested        *)
(*              is_transitioning                                           *)
(*   raised     the exception raised (None while running normally; the     *)
(*              statements after a raise do not run)                       *)
(*   fired      how often the completion callback ran                      *)
(*   landed     the hero and the room as the completion callback left them *)
(*   boss_entries  how often _handle_boss_room_entry ran                   *)
(*   melee      what the hero-attack-vs-enemy step met and did             *)
(*   intent     the attack and special keys, the cooldowns they met and    *)
(*              what was activated                                         *)
(*   ignored    keys were down in a frame whose active hero was dead       *)
(*   door       what the door step met and did                             *)
(*   event      the key, button or menu action run() handled               *)
(*   result     the value run() is going to return                         *)
(*   load       what a load returned: "ok" for True, "failed" for False    *)
(*   enemy_calls  the calls the loop over the enemies made, in order       *)
(***************************************************************************)
NoLanding == [active_hero |-> FALSE]

NoIntent ==
    [attack |-> FALSE, special |-> FALSE, attack_cooldown |-> 0,
     special_cooldown |-> 0, attacked |-> FALSE, specialed |-> FALSE]

NoMelee ==
    [overlap |-> FALSE, applied |-> FALSE, hero_alive |-> FALSE,
     is_attacking |-> FALSE, enemy_alive |-> FALSE, in_targets |-> FALSE]

NoBox == [x |-> 0, y |-> 0, width |-> 0, height |-> 0]

NoDoor ==
    [walk |-> FALSE, interactive |-> FALSE, key |-> FALSE, started |-> 0,
     doors |-> 0, entered |-> None, box |-> NoBox, feet |-> NoBox]

\* an empty or unreadable file
NoFile == [has |-> {}]

Context(g) ==
    [g |-> g, steps |-> <<>>, suspended |-> {}, idle |-> FALSE,
     raised |-> None, fired |-> 0, landed |-> NoLanding, boss_entries |-> 0,
     melee |-> NoMelee, intent |-> NoIntent, ignored |-> FALSE,
     load |-> "none", door |-> NoDoor, event |-> None, result |-> "exit",
     enemy_calls |-> <<>>, file |-> NoFile, new_state |-> None]

Landing(g) ==
    [active_hero |-> g.active_hero, hero |-> g.hero,
     current_room |-> g.current_room, template |-> g.dungeon_manager.template,
     projectiles |-> g.projectiles, enemies |-> g.enemies]

Raise(c, exception) == [c EXCEPT !.raised = exception]

\* step name of update runs and takes the game from c.g to g; suspended
\* collects the steps that ran although a transition was in flight
Step(c, name, g) ==
    [c EXCEPT !.g = g,
              !.steps = Append(@, name),
              !.suspended = IF c.g.transition_manager.is_transitioning
                            THEN @ \cup {name} ELSE @]

\* step name of update runs f on the game
StepBy(c, name, f(_)) == With(c, LAMBDA v : Step(v, name, f(v.g)))

\* the attributes of the Room object _current_room
CurrentWidth(g) == room_width(g.dungeon_manager.template, g.current_room)

CurrentHeight(g) == room_height(g.dungeon_manager.template, g.current_room)

CurrentFloorY(g) == room_floor_y(g.dungeon_manager.template, g.current_room)

CurrentIsBoss(g) == is_boss_room(g.dungeon_manager.template, g.current_room)

CurrentIsStart(g) == is_start_room(g.dungeon_manager.template, g.current_room)

\* set_game_state(new_state), for a GameState member
set_game_state(g, new_state) == [g EXCEPT !.state = new_state]

\* cleanup(): the hero dict, the enemy list and the sprite groups are emptied
cleanup(g) ==
    [g EXCEPT !.heroes = {},
              !.enemies = <<>>,
              !.all_sprites = {},
              !.enemy_sprites = {},
              !.hero = IF g.active_hero THEN g.hero ELSE NoHero]

\* what the construction of the dungeon comes to: its rooms are there, the
\* manager has no current room, or the constructor raises
DungeonOutcomes == {"room", "no_room", "raises"}

\* _initialize_dungeon(), by what the construction of the dungeon comes to
initialize_dungeon_built(c, built) ==
    IF c.g.selected_hero_type = None THEN Raise(c, "ValueError")
    ELSE IF built = "raises" THEN Raise(c, "ConfigurationError")
    ELSE IF built = "no_room"
    THEN Raise([c EXCEPT !.g.dungeon_manager =
                             [DungeonManager(c.g.dungeon_template)
                                  EXCEPT !.current_room = NoRoom],
                         !.g.current_room = NoRoom],
               "RuntimeError")
    ELSE LET dm == DungeonManager(c.g.dungeon_template)
         IN  [c EXCEPT !.g.dungeon_manager = dm,
                       !.g.current_room = dm.current_room]

\* _initialize_dungeon() when the dungeon is built
initialize_dungeon(c) == initialize_dungeon_built(c, "room")

\* _create_hero(hero_type, 0, 0) followed by the placement of
\* _initialize_game: spawn position, ground_y, registration as active hero
create_and_place_hero(g) ==
    LET h0    == NewHero(g.selected_hero_type, 0, 0)
        spawn == get_player_spawn_position_for_current_room(
                     g.dungeon_manager, h0.width, h0.height)
        h1    == [h0 EXCEPT !.x = spawn[1], !.y = spawn[2],
                            !.ground_y = CurrentFloorY(g) - h0.height]
    IN  [g EXCEPT !.hero = h1,
                  !.all_sprites = @ \cup {"hero"},
                  !.heroes = g.heroes \cup {g.selected_hero_type},
                  !.active_hero = TRUE]

\* _initialize_game(), from the call of _initialize_dungeon() on
HeroPlaced(c2) ==
    IF c2.raised # None THEN c2
    ELSE IF c2.g.current_room = NoRoom THEN c2
    ELSE [c2 EXCEPT !.g = create_and_place_hero(c2.g)]

\* _initialize_game(), by what the construction of the dungeon comes to
initialize_game_built(c, built) ==
    HeroPlaced(initialize_dungeon_built([c EXCEPT !.g = cleanup(c.g)], built))

\* _initialize_game() when the dungeon is built
initialize_game(c) ==
    LET c1 == [c EXCEPT !.g = cleanup(c.g)]
        c2 == initialize_dungeon(c1)
    IN  IF c2.raised # None THEN c2
        ELSE IF c2.g.current_room = NoRoom THEN c2
        ELSE [c2 EXCEPT !.g = create_and_place_hero(c2.g)]

\* _create_hero(hero_type, x, y) called by itself: the hero joins the
\* sprite groups; the caller registers it
create_hero(c, hero_type) ==
    IF hero_type \notin HeroType THEN Raise(c, "ValueError")
    ELSE [c EXCEPT !.g.all_sprites = @ \cup {"spare_hero"}]

\* select_hero(hero_type) with the test of the type after the assignments
select_hero_validates_late(c, hero_type) ==
    LET g1 == [c.g EXCEPT !.selected_hero_type = hero_type,
                          !.hero_selection_made = TRUE]
        g2 == set_game_state(g1, "PLAYING")
    IN  IF hero_type \notin HeroType THEN Raise([c EXCEPT !.g = g2], "ValueError")
        ELSE initialize_game([c EXCEPT !.g = g2])

\* select_hero(hero_type)
select_hero(c, hero_type) ==
    IF hero_type \notin HeroType THEN Raise(c, "ValueError")
    ELSE LET g1 == [c.g EXCEPT !.selected_hero_type = hero_type,
                               !.hero_selection_made = TRUE]
             g2 == set_game_state(g1, "PLAYING")
         IN  initialize_game([c EXCEPT !.g = g2])

\* select_hero(hero_type), by what the construction of the dungeon comes to
select_hero_built(c, hero_type, built) ==
    IF hero_type \notin HeroType THEN Raise(c, "ValueError")
    ELSE LET g1 == [c.g EXCEPT !.selected_hero_type = hero_type,
                               !.hero_selection_made = TRUE]
         IN  initialize_game_built(
                 [c EXCEPT !.g = set_game_state(g1, "PLAYING")], built)

\* _reset_game()
reset_game(g) ==
    LET g1 == [g EXCEPT !.hero_selection_made = FALSE,
                        !.selected_hero_type = None,
                        !.active_hero = FALSE]
    IN  set_game_state(cleanup(g1), "HERO_SELECT")

(***************************************************************************)
(* Room transition                                                         *)
(***************************************************************************)
\* _start_room_transition(door) without its test of is_transitioning: the
\* transition is installed whatever the manager is doing
start_room_transition_unguarded(g) ==
    [g EXCEPT !.transition_manager =
        start_transition(RoomTransitionManager, TransitionDuration,
                         "complete_room_transition")]

\* _start_room_transition(door)
start_room_transition(g) ==
    IF g.transition_manager.is_transitioning THEN g
    ELSE [g EXCEPT !.transition_manager =
              start_transition(g.transition_manager, TransitionDuration,
                               "complete_room_transition")]

\* _reposition_hero_after_door_traversal() with ground_y set to the floor
\* itself
reposition_hero_ground_at_floor(g) ==
    IF ~g.active_hero \/ g.current_room = NoRoom THEN g
    ELSE LET spawn == get_player_spawn_position_for_current_room(
                          g.dungeon_manager, g.hero.width, g.hero.height)
         IN  [g EXCEPT !.hero.x = spawn[1],
                       !.hero.y = spawn[2],
                       !.hero.ground_y = CurrentFloorY(g)]

\* _reposition_hero_after_door_traversal()
reposition_hero_after_door_traversal(g) ==
    IF ~g.active_hero \/ g.current_room = NoRoom THEN g
    ELSE LET spawn == get_player_spawn_position_for_current_room(
                          g.dungeon_manager, g.hero.width, g.hero.height)
         IN  [g EXCEPT !.hero.x = spawn[1],
                       !.hero.y = spawn[2],
                       !.hero.ground_y = CurrentFloorY(g) - g.hero.height]

\* _spawn_room_enemies()
spawn_room_enemies(g) ==
    IF g.current_room = NoRoom THEN g
    ELSE LET stale == IF g.hero = NoHero THEN g.hero
                      ELSE [g.hero EXCEPT !.hit_targets =
                               IF @ = {} THEN {} ELSE {"stale"},
                                          !.swing_hits = 0]
             left  == IF "enemy" \in g.all_sprites
                      THEN (g.all_sprites \ {"enemy"}) \cup {"stale_enemy"}
                      ELSE g.all_sprites
             g1 == [g EXCEPT !.enemies = <<>>, !.enemy_sprites = {},
                             !.all_sprites = left, !.hero = stale]
         IN  IF CurrentIsBoss(g)
             THEN [g1 EXCEPT !.enemies =
                      <<DemonBoss(CurrentWidth(g) \div 2, CurrentFloorY(g) - 100)>>,
                             !.enemy_sprites = @ \cup {"enemy"},
                             !.all_sprites = @ \cup {"enemy"}]
             ELSE g1

\* _handle_boss_room_entry(): the hook for the presentation layer
handle_boss_room_entry(c) == [c EXCEPT !.boss_entries = @ + 1]

\* _handle_room_change(), its first part: the projectiles are cleared and
\* the enemies of the room spawned
RoomCleared(c) ==
    [c EXCEPT !.g = spawn_room_enemies([c.g EXCEPT !.projectiles = {}])]

\* _handle_room_change(), its second part: the hook of the boss room
BossRoomCheck(c) ==
    With(c, LAMBDA v :
        IF v.g.current_room = NoRoom THEN Raise(v, "AttributeError")
        ELSE IF CurrentIsBoss(v.g) THEN handle_boss_room_entry(v)
        ELSE v)

\* _handle_room_change() with the hook run for every room
handle_room_change_hook_always(c) ==
    IF RoomCleared(c).g.current_room = NoRoom
    THEN Raise(RoomCleared(c), "AttributeError")
    ELSE handle_boss_room_entry(RoomCleared(c))

\* _handle_room_change()
handle_room_change(c) == BossRoomCheck(RoomCleared(c))

\* the callback has run: what it left is kept in landed
Landed(c) == With(c, LAMBDA v : [v EXCEPT !.landed = Landing(v.g)])

\* _complete_room_transition(): the callback of the transition
complete_room_transition(c) ==
    IF c.g.dungeon_manager = NoDungeonManager
    THEN Raise([c EXCEPT !.fired = @ + 1], "AttributeError")
    ELSE LET g1 == [c.g EXCEPT !.current_room = c.g.dungeon_manager.current_room]
             g2 == reposition_hero_after_door_traversal(g1)
             c1 == handle_room_change([c EXCEPT !.g = g2, !.fired = @ + 1])
         IN  Landed(c1)

\* _transition_manager.update(dt), with the callback it invokes
transition_manager_update(c, dt) ==
    IF transition_fires(c.g.transition_manager, dt)
    THEN complete_room_transition(
             [c EXCEPT !.g.transition_manager = transition_update(@, dt)])
    ELSE [c EXCEPT !.g.transition_manager = transition_update(@, dt)]

(***************************************************************************)
(* The camera.  The walks through the dungeon leave the camera and the     *)
(* window's height out of the game; SpecCamera follows them on games that  *)
(* carry the fields height, camera_x and camera_y.  The camera is kept in  *)
(* whole pixels: the tenth the smoothing takes drops the fraction.         *)
(***************************************************************************)
\* max(0, min(v, limit))
Clamp(v, limit) == Max(0, Min(v, limit))

\* max_x and max_y: how far the room reaches beyond the window
MaxCameraX(g) == Max(0, CurrentWidth(g) - g.width)

MaxCameraY(g) == Max(0, CurrentHeight(g) - g.height)

\* target_x and target_y: the hero in the middle of the window
TargetX(g) == g.hero.x - (g.width \div 2)

TargetY(g) == g.hero.y - (g.height \div 2)

\* d * 0.1
Tenth(d) == IF d >= 0 THEN d \div 10 ELSE 0 - ((0 - d) \div 10)

\* _update_camera()
update_camera(g) ==
    IF ~g.active_hero \/ g.current_room = NoRoom THEN g
    ELSE [g EXCEPT
             !.camera_x = Clamp(@ + Tenth(TargetX(g) - @), MaxCameraX(g)),
             !.camera_y = Clamp(@ + Tenth(TargetY(g) - @), MaxCameraY(g))]

\* the camera of _complete_room_transition() following the hero smoothly,
\* as _update_camera() does
teleport_camera_smooth(g) == update_camera(g)

\* _complete_room_transition(): "TELEPORT CAMERA to follow the hero
\* immediately"
teleport_camera(g) ==
    IF ~g.active_hero \/ g.current_room = NoRoom THEN g
    ELSE [g EXCEPT !.camera_x = Clamp(TargetX(g), MaxCameraX(g)),
                   !.camera_y = Clamp(TargetY(g), MaxCameraY(g))]

\* _complete_room_transition() with its camera: the room change that
\* follows the camera leaves the hero and the room alone
complete_room_transition_camera(c) ==
    IF c.g.dungeon_manager = NoDungeonManager THEN complete_room_transition(c)
    ELSE With(complete_room_transition(c), LAMBDA v :
             [v EXCEPT !.g = teleport_camera(v.g)])

\* _enforce_room_bounds(), its three tests: left wall, right wall, floor
ClampLeft(hero) == IF hero.x < 0 THEN [hero EXCEPT !.x = 0] ELSE hero

ClampRight(hero, w) ==
    IF hero.x + hero.width > w THEN [hero EXCEPT !.x = w - hero.width] ELSE hero

ClampBottom(hero, floor_y) ==
    IF hero.y + hero.height > floor_y
    THEN [hero EXCEPT !.y = floor_y - hero.height] ELSE hero

\* _enforce_room_bounds()
enforce_room_bounds(g) ==
    IF ~g.active_hero \/ g.current_room = NoRoom THEN g
    ELSE [g EXCEPT !.hero =
             ClampBottom(ClampRight(ClampLeft(g.hero), CurrentWidth(g)),
                         CurrentFloorY(g))]

\* the feet-level rectangle, a quarter of the hero's width wide
FeetHitbox_quarter_width(hero) ==
    [x |-> hero.x + hero.width \div 4,
     y |-> hero.y + hero.height - FeetHeight,
     width |-> hero.width \div 4,
     height |-> FeetHeight]

\* the feet-level rectangle _check_door_traversal computes
FeetHitbox(hero) ==
    [x |-> hero.x + hero.width \div 4,
     y |-> hero.y + hero.height - FeetHeight,
     width |-> hero.width \div 2,
     height |-> FeetHeight]

\* _check_door_traversal(prev_x, prev_y) without the test of the E key: an
\* interactive door is entered on overlap alone
check_door_traversal_no_key(g, interact) ==
    IF g.current_room = NoRoom \/ ~g.active_hero THEN g
    ELSE LET feet == FeetHitbox(g.hero)
             walk == try_enter_walkthrough_door(g.dungeon_manager, feet.x, feet.y)
             act  == try_enter_interactive_door(g.dungeon_manager, feet.x, feet.y, TRUE)
         IN  IF walk.entered
             THEN start_room_transition([g EXCEPT !.dungeon_manager = walk.dm])
             ELSE IF act.entered
             THEN start_room_transition([g EXCEPT !.dungeon_manager = act.dm])
             ELSE g

\* _check_door_traversal(prev_x, prev_y); interact is the E key
check_door_traversal(g, interact) ==
    IF g.current_room = NoRoom \/ ~g.active_hero THEN g
    ELSE LET feet == FeetHitbox(g.hero)
             walk == try_enter_walkthrough_door(g.dungeon_manager, feet.x, feet.y)
             act  == try_enter_interactive_door(g.dungeon_manager, feet.x, feet.y, TRUE)
         IN  IF walk.entered
             THEN start_room_transition([g EXCEPT !.dungeon_manager = walk.dm])
             ELSE IF interact /\ act.entered
             THEN start_room_transition([g EXCEPT !.dungeon_manager = act.dm])
             ELSE g

(***************************************************************************)
(* The per-frame update.  The input of a frame:                            *)
(*   attack, special, interact                                             *)
(*                     the SPACE, Q and E keys                             *)
(*   dx                the distance handle_input moves the hero            *)
(*   hit               the swing's hitbox overlaps the enemy's hitbox and  *)
(*                     the enemy's take_damage accepts the damage          *)
(*   struck            the enemy's attack on the hero lands                *)
(*   shot              the projectiles that collide with the enemy         *)
(*   out               the projectiles in flight leave the bounds          *)
(***************************************************************************)
NoInput ==
    [attack |-> FALSE, special |-> FALSE, interact |-> FALSE, dx |-> 0,
     hit |-> FALSE,
     struck |-> FALSE, shot |-> {}, out |-> FALSE]

\* the active hero is there and alive
Acts(p) == p.active_hero /\ p.hero.is_alive

\* a living enemy is in the room
Fights(p) == Len(p.enemies) > 0 /\ p.enemies[1].is_alive

\* moved by dx, the hero's feet are in an interactive door
AtInteractiveDoor(p, dx) ==
    /\ p.current_room # NoRoom
    /\ DoorAt(p.dungeon_manager, "UP", "DOWN",
              FeetHitbox(handle_input(p.hero, dx)).x,
              FeetHitbox(handle_input(p.hero, dx)).y) # None

\* FALSE, and TRUE as well where the input can be read
Maybe(readable) == IF readable THEN BOOLEAN ELSE {FALSE}

\* the keys of a frame that finds the game p
KeyInputs(p) ==
    IF ~Acts(p) THEN {[attack |-> FALSE, interact |-> FALSE, dx |-> 0]}
    ELSE {k \in [attack : Maybe(p.hero.attack_cooldown_remaining <= 0),
                 interact : BOOLEAN, dx : MoveChoices] :
             k.interact => AtInteractiveDoor(p, k.dx)}

\* what collides in a frame that finds the game p
FightInputs(p) ==
    [hit : Maybe(Len(p.enemies) > 0 /\ p.heroes # {}),
     struck : Maybe(Fights(p) /\ Acts(p)),
     shot : IF Fights(p) THEN {{}} \cup {{q} : q \in p.projectiles} ELSE {{}},
     out : Maybe(p.projectiles # {})]

\* the inputs of a frame that finds the game p when it reads them
FrameInputs(reads, p) ==
    IF ~reads THEN {NoInput}
    ELSE {[attack |-> k.attack, special |-> FALSE, interact |-> k.interact,
           dx |-> k.dx, hit |-> f.hit, struck |-> f.struck, shot |-> f.shot,
           out |-> f.out] : k \in KeyInputs(p), f \in FightInputs(p)}

\* the frame reads its inputs: PLAYING, nothing raised, no transition
Reads(g, c1) ==
    /\ g.state = "PLAYING"
    /\ c1.raised = None
    /\ ~c1.g.transition_manager.is_transitioning

\* the inputs of a frame whose transition timer left c1
InputsAfter(g, c1) ==
    With(c1, LAMBDA v :
        With(enforce_room_bounds(v.g), LAMBDA p : FrameInputs(Reads(g, v), p)))

\* the inputs of a frame of dt.  An input the frame cannot read is not
\* varied: none outside PLAYING and during a transition; the keys only with
\* a living active hero, E only where the hero's feet end up in an
\* interactive door; the fight only with an enemy in the room.  SPACE is
\* down in these frames only when the attack is off cooldown, and Q is up.
Inputs(g, dt) == InputsAfter(g, transition_manager_update(Context(g), dt))

\* what activate_attack does to the game: a hero attacking at range adds a
\* projectile, fired in the current room, to the projectile manager
fire_projectile(g) ==
    IF is_ranged(g.hero.hero_type)
    THEN [g EXCEPT !.projectiles =
              @ \cup {Projectile(g.current_room, g.hero.hero_type)}]
    ELSE g

\* update, the keys SPACE and Q without the tests of the cooldowns
resolve_intent_ungated(g, in) ==
    LET g1 == IF in.attack
              THEN fire_projectile([g EXCEPT !.hero = activate_attack(g.hero)])
              ELSE g
    IN  IF in.special
        THEN [g1 EXCEPT !.hero = activate_special_ability(g1.hero)]
        ELSE g1

\* update, the keys SPACE and Q: the basic attack and the special ability,
\* each when its key is down and its cooldown has run out
resolve_intent(g, in) ==
    LET g1 == IF in.attack /\ g.hero.attack_cooldown_remaining <= 0
              THEN fire_projectile([g EXCEPT !.hero = activate_attack(g.hero)])
              ELSE g
    IN  IF in.special /\ g1.hero.special_cooldown_remaining <= 0
        THEN [g1 EXCEPT !.hero = activate_special_ability(g1.hero)]
        ELSE g1

\* what the keys SPACE and Q met in g0 and did on the way to g1: a cooldown
\* that went up was started by an activation
Intent(g0, g1, in) ==
    [attack |-> in.attack, special |-> in.special,
     attack_cooldown |-> g0.hero.attack_cooldown_remaining,
     special_cooldown |-> g0.hero.special_cooldown_remaining,
     attacked |-> \/ g1.hero.attack_cooldown_remaining >
                        g0.hero.attack_cooldown_remaining
                  \/ g1.projectiles # g0.projectiles,
     specialed |-> g1.hero.special_cooldown_remaining >
                       g0.hero.special_cooldown_remaining]

\* the inputs of a frame of dt with the Q key down, and SPACE down or up
\* whatever the cooldown of the attack; nothing collides in these frames
SpecialInputs(g, dt) ==
        IF With(transition_manager_update(Context(g), dt),
                LAMBDA v : Acts(enforce_room_bounds(v.g)))
        THEN {[in EXCEPT !.special = TRUE, !.attack = a] :
                 in \in {i \in Inputs(g, dt) :
                            /\ ~i.attack
                            /\ ~i.hit /\ ~i.struck /\ i.shot = {} /\ ~i.out},
                 a \in BOOLEAN}
        ELSE {}

\* the keys SPACE and Q took the game of c to g1
IntentNoted(c, g1, in) ==
    [Step(c, "attack", g1) EXCEPT !.intent = Intent(c.g, g1, in)]

\* the keys SPACE and Q as a step of update, with what they met and did
intent_step(c, in) ==
    With(resolve_intent(c.g, in), LAMBDA g1 : IntentNoted(c, g1, in))

\* the rooms between two rooms of the grid
RoomDistance(a, b) ==
    Max(a[1] - b[1], b[1] - a[1]) + Max(a[2] - b[2], b[2] - a[2])

\* what the door step met in g0 and did on the way to g1: the hero's box
\* and the rectangle of its feet, the doors the feet were in, the E key, the
\* transitions started, the doors gone through and the direction of the
\* last one
Door(g0, g1, interact) ==
    [box |-> [x |-> g0.hero.x, y |-> g0.hero.y,
              width |-> g0.hero.width, height |-> g0.hero.height],
     feet |-> FeetHitbox(g0.hero),
     walk |-> DoorAt(g0.dungeon_manager, "LEFT", "RIGHT",
                     FeetHitbox(g0.hero).x, FeetHitbox(g0.hero).y) # None,
     interactive |-> DoorAt(g0.dungeon_manager, "UP", "DOWN",
                            FeetHitbox(g0.hero).x, FeetHitbox(g0.hero).y) # None,
     key |-> interact,
     started |-> IF /\ g1.transition_manager.is_transitioning
                    /\ ~g0.transition_manager.is_transitioning
                 THEN 1 ELSE 0,
     doors |-> RoomDistance(g0.dungeon_manager.current_room,
                            g1.dungeon_manager.current_room),
     entered |-> IF g1.dungeon_manager = g0.dungeon_manager THEN None
                 ELSE g1.dungeon_manager.entry_direction]

\* the door step took the game of c to g1
DoorNoted(c, g1, interact) ==
    [Step(c, "door", g1) EXCEPT !.door =
        IF c.g.current_room = NoRoom THEN NoDoor ELSE Door(c.g, g1, interact)]

\* the door traversal as a step of update, with what it met and did
door_step(c, in) ==
    With(c, LAMBDA v :
        With(check_door_traversal(v.g, in.interact),
             LAMBDA g1 : DoorNoted(v, g1, in.interact)))

\* the hero block of update: attack on SPACE when off cooldown, movement,
\* door traversal, pillar collection
hero_input(c, in) ==
    LET c1 == intent_step(c, in)
        c2 == StepBy(c1, "move",
                     LAMBDA g : [g EXCEPT !.hero = handle_input(g.hero, in.dx)])
        c3 == door_step(c2, in)
    IN  StepBy(c3, "pillar", LAMBDA g : g)

\* all_sprites.update(dt): the hero is in the group from its creation until
\* the next cleanup
all_sprites_update(g, dt) ==
    IF "hero" \in g.all_sprites THEN [g EXCEPT !.hero = hero_update(g.hero, dt)] ELSE g

\* _handle_hero_enemy_collisions() without the test of hit_targets
handle_hero_enemy_collisions_repeated(g, hit) ==
    IF /\ g.heroes # {}
       /\ g.hero.is_alive /\ g.hero.is_attacking
       /\ Len(g.enemies) > 0
       /\ g.enemies[1].is_alive
       /\ hit
    THEN [g EXCEPT !.enemies[1] = take_damage(@, hero_damage(g.hero.hero_type)),
                   !.hero.hit_targets = @ \cup {"current"}]
    ELSE g

\* _handle_hero_enemy_collisions(): one enemy at most is in the list
handle_hero_enemy_collisions(g, hit) ==
    IF /\ g.heroes # {}
       /\ g.hero.is_alive /\ g.hero.is_attacking
       /\ Len(g.enemies) > 0
       /\ g.enemies[1].is_alive /\ "current" \notin g.hero.hit_targets
       /\ hit
    THEN [g EXCEPT !.enemies[1] = take_damage(@, hero_damage(g.hero.hero_type)),
                   !.hero.hit_targets = @ \cup {"current"}]
    ELSE g

\* _handle_projectile_collisions(): a projectile that collides with a
\* living enemy damages it and is destroyed
handle_projectile_collisions(g, shot) ==
    IF Len(g.enemies) > 0 /\ g.enemies[1].is_alive
       /\ shot # {} /\ shot \subseteq g.projectiles
    THEN LET q == CHOOSE q \in shot : TRUE
         IN  [g EXCEPT !.enemies[1] = take_damage(@, q.damage),
                       !.projectiles = @ \ shot]
    ELSE g

\* _handle_hero_floor_collision()
handle_hero_floor_collision(g) ==
    IF g.current_room = NoRoom THEN g
    ELSE IF /\ g.heroes # {}
            /\ g.hero.is_alive
            /\ g.hero.y + g.hero.height > CurrentFloorY(g)
    THEN [g EXCEPT !.hero.y = CurrentFloorY(g) - g.hero.height]
    ELSE g

\* what the hero-attack-vs-enemy step met in g0 and did on the way to g1:
\* whether the swing overlapped the enemy, whether the enemy lost health,
\* and what the step found
Melee(g0, g1, overlap) ==
    IF g0.hero = NoHero \/ Len(g0.enemies) = 0 THEN NoMelee
    ELSE LET applied == g1.enemies[1].health < g0.enemies[1].health
         IN  IF ~overlap /\ ~applied THEN NoMelee
             ELSE [overlap |-> overlap, applied |-> applied,
                   hero_alive |-> g0.hero.is_alive,
                   is_attacking |-> g0.hero.is_attacking,
                   enemy_alive |-> g0.enemies[1].is_alive,
                   in_targets |-> "current" \in g0.hero.hit_targets]

\* swing_hits after a step that found and did m
CountHit(g, m) ==
    IF m.applied THEN [g EXCEPT !.hero.swing_hits = Min(@ + 1, 2)] ELSE g

\* the hero-attack-vs-enemy step took the game of c to g1 and did m
MeleeCounted(c, g1, m) ==
    [Step(c, "hero_enemy", CountHit(g1, m)) EXCEPT !.melee = m]

MeleeNoted(c, g1, overlap) ==
    With(Melee(c.g, g1, overlap), LAMBDA m : MeleeCounted(c, g1, m))

\* the hero-attack-vs-enemy step, with swing_hits counting how often the
\* swing in progress has damaged the enemy
melee_step(c, in) ==
    With(handle_hero_enemy_collisions(c.g, in.hit),
         LAMBDA g1 : MeleeNoted(c, g1, in.hit))

\* _handle_collisions(): hero attack, projectiles, platforms, floor
handle_collisions(c, in) ==
    LET c1 == With(c, LAMBDA v : melee_step(v, in))
        c2 == StepBy(c1, "projectile",
                     LAMBDA g : handle_projectile_collisions(g, in.shot))
        c3 == StepBy(c2, "platform", LAMBDA g : g)
    IN  StepBy(c3, "floor", handle_hero_floor_collision)

\* _update_game_objects(dt), its loop over the enemies: a living enemy
\* attacks the living active hero
enemies_attack(g, struck) ==
    IF /\ Len(g.enemies) > 0
       /\ g.enemies[1].is_alive /\ g.active_hero
       /\ struck /\ g.hero.is_alive
    THEN [g EXCEPT !.hero = take_damage(g.hero, BossDamage)]
    ELSE g

\* _update_game_objects(dt), its loop over the heroes
heroes_update(g, dt) ==
    IF g.heroes # {} THEN [g EXCEPT !.hero = hero_update(g.hero, dt)] ELSE g

\* _update_game_objects(dt): the heroes tick, every living enemy attacks
\* the active hero, the projectile manager drops the projectiles that left
\* the bounds
update_game_objects(g, dt, in) ==
    LET g1 == heroes_update(g, dt)
        g2 == With(g1, LAMBDA v : enemies_attack(v, in.struck))
    IN  With(g2, LAMBDA v : IF in.out THEN [v EXCEPT !.projectiles = {}] ELSE v)

\* a call the loop over the enemies makes on enemy i; at is where
\* move_towards_target is sent
EnemyCall(i, call, at) == [enemy |-> i, call |-> call, at |-> at]

\* the loop over the enemies without its test of enemy.is_alive
EnemyCalls_dead_too(g, i) ==
    IF g.active_hero
    THEN <<EnemyCall(i, "update", <<>>),
           EnemyCall(i, "move_towards_target", <<g.hero.x, g.hero.y>>),
           EnemyCall(i, "attack", <<>>)>>
    ELSE <<>>

\* _update_game_objects(dt), the body of its loop over the enemies: the
\* calls made on enemy i
EnemyCalls(g, i) ==
    IF g.enemies[i].is_alive /\ g.active_hero
    THEN <<EnemyCall(i, "update", <<>>),
           EnemyCall(i, "move_towards_target", <<g.hero.x, g.hero.y>>),
           EnemyCall(i, "attack", <<>>)>>
    ELSE <<>>

\* _update_game_objects(dt), its loop over the enemies from enemy i on
RECURSIVE CallsFrom(_, _)
CallsFrom(g, i) ==
    IF i > Len(g.enemies) THEN <<>>
    ELSE EnemyCalls(g, i) \o CallsFrom(g, i + 1)

\* the entities step of update, with the calls its loop over the enemies
\* makes once the heroes have been updated
entities_step(c, dt, in) ==
    With(c, LAMBDA v :
        [Step(v, "entities", update_game_objects(v.g, dt, in))
             EXCEPT !.enemy_calls = CallsFrom(heroes_update(v.g, dt), 1)])

\* _check_game_state() without its test for the heroes
check_game_state_no_defeat(g) ==
    IF Len(g.enemies) > 0
       /\ \A i \in 1..Len(g.enemies) : ~g.enemies[i].is_alive
    THEN set_game_state(g, "VICTORY")
    ELSE g

\* _check_game_state() with all() alone, which an empty list satisfies
check_game_state_empty_victory(g) ==
    IF g.heroes = {} \/ ~g.hero.is_alive
    THEN set_game_state(g, "GAME_OVER")
    ELSE IF \A i \in 1..Len(g.enemies) : ~g.enemies[i].is_alive
    THEN set_game_state(g, "VICTORY")
    ELSE g

\* _check_game_state() if the defeat test asked for at least one hero
check_game_state_needs_hero(g) ==
    IF g.heroes # {} /\ ~g.hero.is_alive
    THEN set_game_state(g, "GAME_OVER")
    ELSE IF Len(g.enemies) > 0
            /\ \A i \in 1..Len(g.enemies) : ~g.enemies[i].is_alive
    THEN set_game_state(g, "VICTORY")
    ELSE g

\* _check_game_state()
check_game_state(g) ==
    IF g.heroes = {} \/ ~g.hero.is_alive
    THEN set_game_state(g, "GAME_OVER")
    ELSE IF Len(g.enemies) > 0
            /\ \A i \in 1..Len(g.enemies) : ~g.enemies[i].is_alive
    THEN set_game_state(g, "VICTORY")
    ELSE g

\* _dungeon_manager.update_pillars(dt), the last statement of update
update_pillars(c) ==
    With(c, LAMBDA v :
        IF v.g.dungeon_manager = NoDungeonManager THEN Raise(v, "AttributeError")
        ELSE v)

\* update with the collisions resolved before the sprites are updated
update_world_collisions_first(c, dt, in) ==
    LET c1 == IF c.g.active_hero /\ c.g.hero.is_alive THEN hero_input(c, in) ELSE c
        c2 == handle_collisions(c1, in)
        c3 == StepBy(c2, "sprites", LAMBDA g : all_sprites_update(g, dt))
        c4 == StepBy(c3, "entities", LAMBDA g : update_game_objects(g, dt, in))
        c5 == StepBy(c4, "camera", LAMBDA g : g)
        c6 == StepBy(c5, "evaluate", check_game_state)
    IN  update_pillars(c6)

\* a key the hero block of update reads is down
KeysDown(in) == in.attack \/ in.special \/ in.interact \/ in.dx # 0

\* update_world with the hero block run for every active hero, dead or alive
update_world_dead_hero_acts(c, dt, in) ==
    LET c1 == IF c.g.active_hero THEN hero_input(c, in) ELSE c
        c2 == StepBy(c1, "sprites", LAMBDA g : all_sprites_update(g, dt))
        c3 == handle_collisions(c2, in)
        c4 == StepBy(c3, "entities", LAMBDA g : update_game_objects(g, dt, in))
        c5 == StepBy(c4, "camera", LAMBDA g : g)
        c6 == StepBy(c5, "evaluate", check_game_state)
    IN  update_pillars(c6)

\* the part of update that runs when no transition is in flight
update_world(c, dt, in) ==
    LET c1 == IF c.g.active_hero /\ c.g.hero.is_alive THEN hero_input(c, in)
              ELSE [c EXCEPT !.ignored = c.g.active_hero /\ KeysDown(in)]
        c2 == StepBy(c1, "sprites", LAMBDA g : all_sprites_update(g, dt))
        c3 == handle_collisions(c2, in)
        c4 == entities_step(c3, dt, in)
        c5 == StepBy(c4, "camera", LAMBDA g : g)
        c6 == StepBy(c5, "evaluate", check_game_state)
    IN  update_pillars(c6)

\* update, the call of _enforce_room_bounds (not reached after a raise)
BoundsEnforced(c) ==
    With(c, LAMBDA v :
        IF v.raised # None THEN v ELSE [v EXCEPT !.g = enforce_room_bounds(v.g)])

\* update, the block under `if not self._transition_manager.is_transitioning`
UnlessTransitioning(c, dt, in) ==
    With(c, LAMBDA v :
        IF v.raised # None \/ v.g.transition_manager.is_transitioning THEN v
        ELSE update_world([v EXCEPT !.idle = TRUE], dt, in))

\* update(dt, keys) without the test of the state
update_any_state(c, dt, in) ==
    LET c1 == transition_manager_update(c, dt)
        c2 == BoundsEnforced(c1)
    IN  UnlessTransitioning(c2, dt, in)

\* update(dt, keys)
update(c, dt, in) ==
    IF c.g.state # "PLAYING" THEN c
    ELSE LET c1 == transition_manager_update(c, dt)
             c2 == BoundsEnforced(c1)
         IN  UnlessTransitioning(c2, dt, in)

(***************************************************************************)
(* Window events                                                           *)
(***************************************************************************)
\* pygame.display.Info().current_w
FullscreenWidth == 1920

\* _toggle_fullscreen()
toggle_fullscreen(g) ==
    LET g1 == IF ~g.is_fullscreen
              THEN [g EXCEPT !.is_fullscreen = TRUE,
                             !.windowed_width = g.width,
                             !.width = FullscreenWidth]
              ELSE [g EXCEPT !.is_fullscreen = FALSE,
                             !.width = g.windowed_width]
    IN  [g1 EXCEPT !.transition_manager = RoomTransitionManager]

\* handle_event(event) for WINDOWRESIZED with event.x = w
window_resized(g, w) ==
    IF g.is_fullscreen THEN g
    ELSE [g EXCEPT !.width = w,
                   !.windowed_width = w,
                   !.transition_manager = RoomTransitionManager]

\* handle_event(event) for WINDOWMAXIMIZED
window_maximized(g) == IF ~g.is_fullscreen THEN toggle_fullscreen(g) ELSE g

\* handle_event(event) for WINDOWRESTORED
window_restored(g) == IF g.is_fullscreen THEN toggle_fullscreen(g) ELSE g

(***************************************************************************)
(* Key and mouse events                                                    *)
(***************************************************************************)
Keys == {"K_1", "K_2", "K_3", "K_ESCAPE", "K_F11", "K_SPACE"}

\* _handle_hero_select_input(key)
handle_hero_select_input(c, key) ==
    CASE key = "K_1" -> select_hero(c, "KNIGHT")
      [] key = "K_2" -> select_hero(c, "ARCHER")
      [] key = "K_3" -> select_hero(c, "CLERIC")
      [] key = "K_ESCAPE" -> [c EXCEPT !.g.running = FALSE]
      [] key = "K_F11" -> [c EXCEPT !.g = toggle_fullscreen(c.g)]
      [] OTHER -> c

\* _handle_playing_input(key)
handle_playing_input(g, key) ==
    CASE key = "K_ESCAPE" -> set_game_state(g, "PAUSED")
      [] key = "K_F11" -> toggle_fullscreen(g)
      [] OTHER -> g

\* _handle_end_state_input(key)
handle_end_state_input(g, key) ==
    CASE key = "K_SPACE" -> reset_game(g)
      [] key = "K_ESCAPE" -> [g EXCEPT !.running = FALSE]
      [] key = "K_F11" -> toggle_fullscreen(g)
      [] OTHER -> g

\* handle_event(event) for KEYDOWN with event.key = key
handle_keydown(c, key) ==
    CASE c.g.state = "HERO_SELECT" -> handle_hero_select_input(c, key)
      [] c.g.state = "PLAYING" -> [c EXCEPT !.g = handle_playing_input(c.g, key)]
      [] c.g.state \in {"GAME_OVER", "VICTORY"} ->
             [c EXCEPT !.g = handle_end_state_input(c.g, key)]
      [] OTHER -> c

\* the ESC branch with a plain else: every state but PLAYING resumes
run_escape_resumes_all(g) ==
    IF g.state = "PLAYING" THEN [g EXCEPT !.state = "PAUSED"]
    ELSE [g EXCEPT !.state = "PLAYING"]

\* run(): the ESC branch of the event loop
run_escape(g) ==
    CASE g.state = "PLAYING" -> [g EXCEPT !.state = "PAUSED"]
      [] g.state = "PAUSED" -> [g EXCEPT !.state = "PLAYING"]
      [] OTHER -> g

\* _handle_paused_mouse_input(position), by the button under the position
handle_paused_mouse_input(g, button) ==
    CASE button = "resume" -> set_game_state(g, "PLAYING")
      [] button = "quit" -> [g EXCEPT !.running = FALSE]
      [] OTHER -> g

\* run(): a KEYDOWN event with the events handed on to handle_event as well
run_keydown_handled(c, key) ==
    handle_keydown([c EXCEPT !.g = IF key = "K_ESCAPE" THEN run_escape(c.g)
                                   ELSE c.g,
                             !.event = key], key)

\* run(): a KEYDOWN event.  The branch looks at the ESC key alone, and
\* the event does not reach handle_event
run_keydown(c, key) ==
    [c EXCEPT !.g = IF key = "K_ESCAPE" THEN run_escape(c.g) ELSE c.g,
              !.event = key]

\* run(): a MOUSEBUTTONDOWN event, by the button under the position
run_mouse(c, button) ==
    [c EXCEPT !.g = IF c.g.state = "PAUSED"
                    THEN handle_paused_mouse_input(c.g, button) ELSE c.g,
              !.event = button]

\* _draw_victory() and _draw_game_over(), by the action the menu returns
draw_result_menu(g, action) ==
    IF action = "main_menu" THEN reset_game([g EXCEPT !.state = "MENU"]) ELSE g

\* run(): the test for MENU that follows the result screen
run_menu_test(c) ==
    IF c.g.state = "MENU"
    THEN [c EXCEPT !.g.running = FALSE, !.result = "menu"]
    ELSE c

\* run(): the result screen of a game that ended, by the action its menu
\* returns, and the test for MENU
run_result(c, action) ==
    run_menu_test([c EXCEPT !.g = draw_result_menu(c.g, action),
                            !.event = action])

\* _update_play_time() when the clock reads now
update_play_time(g, now) ==
    With(IF g.play_time_start = NoTime THEN now ELSE g.play_time_start,
         LAMBDA start : [g EXCEPT !.play_time = @ + (now - start),
                                  !.play_time_start = now])

\* run(): the statements before the loop, when the clock reads now
run_enter(g, now) == [g EXCEPT !.running = TRUE, !.play_time_start = now]

\* run(): the event of a frame, of those that are followed: none, the
\* window is closed, the ESC key, a click on a button of the pause menu
RunEvents == {"none", "QUIT", "K_ESCAPE", "resume", "quit"}

run_event(c, event) ==
    CASE event = "QUIT" -> [c EXCEPT !.g.running = FALSE, !.event = event]
      [] event = "K_ESCAPE" -> run_keydown(c, event)
      [] event \in {"resume", "save", "quit"} -> run_mouse(c, event)
      [] OTHER -> c

\* run(): "update game state", when the clock reads now
run_update(c, now, dt, in) ==
    CASE c.g.state = "PLAYING" ->
             update([c EXCEPT !.g = update_play_time(c.g, now)], dt, in)
      [] c.g.state = "PAUSED" /\ c.g.play_time_start # NoTime ->
             [c EXCEPT !.g = [update_play_time(c.g, now)
                                  EXCEPT !.play_time_start = NoTime]]
      [] OTHER -> c

\* draw(): the game that ended shows its result screen
Ended(g) == g.state \in {"GAME_OVER", "VICTORY"}

draw(g, action) == IF Ended(g) THEN draw_result_menu(g, action) ELSE g

\* run(): "draw it all" and "check game state", by the actions the result
\* screens return
run_draw(c, first, second) ==
    With([c EXCEPT !.g = draw(c.g, first)], LAMBDA v :
        IF Ended(v.g) THEN run_result(v, second) ELSE v)

\* run(): one turn of the loop that finds the state other than MENU: the
\* event, the update and the screens.  An exception update raises ends
\* run()
run_frame(c, now, dt, event, in, first, second) ==
    With(run_update(run_event(c, event), now, dt, in), LAMBDA v :
        IF v.raised # None THEN v ELSE run_draw(v, first, second))

\* run(): the turn of the loop that finds the state MENU
run_menu(c) == [c EXCEPT !.g.running = FALSE, !.result = "menu"]

\* the result screens a frame shows: one in draw(), and one more in run()
\* when the first left the state as it was
Screens(g0, g1) == IF ~Ended(g0) THEN 0 ELSE IF Ended(g1) THEN 2 ELSE 1

(***************************************************************************)
(* Save and load.  The save file is outside the game: save_game yields the *)
(* record it hands to the SaveLoadSystem, load_game takes the record the   *)
(* SaveLoadSystem reads back (SaveLoadManager.py is not in the tree; it is *)
(* modelled as storing the record as it is).  A record names the fields it *)
(* has.                                                                    *)
(***************************************************************************)
SavedFields ==
    {"hero_type", "hero_position", "hero_health", "current_room",
     "dungeon_template", "play_time"}

\* save_game(): the record, when there is an active hero and a dungeon
save_game(g) ==
    IF \/ ~g.active_hero
       \/ g.dungeon_manager = NoDungeonManager
       \/ g.selected_hero_type = None
    THEN [ok |-> FALSE, file |-> NoFile]
    ELSE [ok |-> TRUE,
          file |-> [has |-> SavedFields,
                    hero_type |-> g.selected_hero_type,
                    hero_position |-> <<g.hero.x, g.hero.y>>,
                    hero_health |-> g.hero.health,
                    current_room |-> g.dungeon_manager.current_room,
                    dungeon_template |-> g.dungeon_template,
                    play_time |-> g.play_time]]

\* values that are no GameState member: None, the value of a member, the
\* name of a member in lower case
NoGameState == {None, "2", "playing"}

\* set_game_state(new_state) if it stored whatever it is given
set_game_state_unchecked(c, new_state) ==
    [c EXCEPT !.g = set_game_state(c.g, new_state), !.new_state = new_state]

\* set_game_state(new_state), called with any value
set_game_state_call(c, new_state) ==
    IF new_state \notin GameState
    THEN Raise([c EXCEPT !.new_state = new_state], "ValueError")
    ELSE [c EXCEPT !.g = set_game_state(c.g, new_state),
                   !.new_state = new_state]

\* save_game() called on the game of c: the record goes to the file
save_game_call(c) ==
    IF save_game(c.g).ok THEN [c EXCEPT !.file = save_game(c.g).file] ELSE c

\* set_dungeon_template(template)
set_dungeon_template(g, template) == [g EXCEPT !.dungeon_template = template]

\* the except branch of a load: the exception is swallowed, False returned
LoadFailed(c) == [c EXCEPT !.load = "failed", !.raised = None]

\* dungeon_manager.set_current_room_by_coordinates(col, row)
set_current_room_by_coordinates(dm, room) == [dm EXCEPT !.current_room = room]

\* the statements that put the saved room into the rebuilt game; whether
\* the dungeon manager raises for a coordinate without a room is its own
\* affair (dm_raises)
restore_room(c, room, dm_raises) ==
    IF room \in RoomsOf(c.g.dungeon_manager.template)
    THEN [c EXCEPT !.g.dungeon_manager =
                       set_current_room_by_coordinates(@, room),
                   !.load = "ok"]
    ELSE IF dm_raises THEN LoadFailed(c)
    ELSE [c EXCEPT !.load = "ok"]

\* load_game(): every field is extracted before the game is touched
load_game(c, file, dm_raises) ==
    IF \/ file.has = {}
       \/ ~((SavedFields \ {"play_time"}) \subseteq file.has)
       \/ file.hero_type \notin HeroType
       \/ file.dungeon_template \notin DungeonTemplate
    THEN LoadFailed(c)
    ELSE LET g1 == [c.g EXCEPT
                       !.play_time = IF "play_time" \in file.has
                                     THEN file.play_time ELSE 0,
                       !.selected_hero_type = file.hero_type,
                       !.dungeon_template = file.dungeon_template]
         IN  With(initialize_game([c EXCEPT !.g = g1]), LAMBDA c2 :
             IF c2.raised # None \/ ~c2.g.active_hero THEN LoadFailed(c2)
             ELSE IF Len(file.hero_position) # 2 THEN LoadFailed(c2)
             ELSE restore_room(
                      [c2 EXCEPT !.g.hero.x = file.hero_position[1],
                                 !.g.hero.y = file.hero_position[2],
                                 !.g.hero.health = file.hero_health],
                      file.current_room, dm_raises))

\* load_game_state(game_state): every field is read where it is applied
load_game_state(c, file, dm_raises) ==
    IF "hero_type" \notin file.has \/ file.hero_type \notin HeroType
    THEN LoadFailed(c)
    ELSE LET c1 == [c EXCEPT !.g.selected_hero_type = file.hero_type]
         IN  IF \/ "dungeon_template" \notin file.has
                \/ file.dungeon_template \notin DungeonTemplate
             THEN LoadFailed(c1)
             ELSE With(initialize_game(
                      [c1 EXCEPT !.g.dungeon_template = file.dungeon_template]),
                  LAMBDA c2 :
                      IF c2.raised # None \/ ~c2.g.active_hero THEN LoadFailed(c2)
                      ELSE IF \/ "hero_position" \notin file.has
                              \/ Len(file.hero_position) # 2
                      THEN LoadFailed(c2)
                      ELSE LET c3 == [c2 EXCEPT
                                  !.g.hero.x = file.hero_position[1],
                                  !.g.hero.y = file.hero_position[2]]
                           IN  IF "hero_health" \notin file.has
                               THEN LoadFailed(c3)
                               ELSE IF "current_room" \notin file.has
                               THEN LoadFailed(
                                   [c3 EXCEPT !.g.hero.health = file.hero_health])
                               ELSE restore_room(
                                   [c3 EXCEPT !.g.hero.health = file.hero_health],
                                   file.current_room, dm_raises))

\* the run a load replaces: what the game holds in memory of it
Run(g) ==
    [selected_hero_type |-> g.selected_hero_type,
     dungeon_template |-> g.dungeon_template,
     heroes |-> g.heroes, active_hero |-> g.active_hero, hero |-> g.hero,
     enemies |-> g.enemies,
     current_room |-> g.current_room,
     dungeon_manager |-> g.dungeon_manager,
     play_time |-> g.play_time]

NoRun == Run(NewGame(ScreenWidth))

\* a well-formed record: an archer in the room right of the start room
GoodFile ==
    [has |-> SavedFields, hero_type |-> "ARCHER",
     hero_position |-> <<368, 436>>, hero_health |-> ArcherMaxHealth,
     current_room |-> <<1, 0>>, dungeon_template |-> "SQUARE",
     play_time |-> 1]

\* the records a file can hold: the well-formed one, and it with one field
\* missing or invalid (a health of 0, and one above the archer's maximum,
\* included)
Files ==
    {GoodFile, NoFile,
     [GoodFile EXCEPT !.hero_type = "WIZARD"],
     [GoodFile EXCEPT !.dungeon_template = "MAZE"],
     [GoodFile EXCEPT !.hero_position = <<>>],
     [GoodFile EXCEPT !.current_room = <<2, 2>>],
     [GoodFile EXCEPT !.hero_health = 0],
     [GoodFile EXCEPT !.hero_health = KnightMaxHealth]}
    \cup {[GoodFile EXCEPT !.has = SavedFields \ {f}] : f \in SavedFields}

\* what the dungeon manager can do with the room of the record: the choice
\* is open only for a coordinate without a room
DmRaises(file) ==
    IF "current_room" \in file.has /\ file.current_room = <<2, 2>>
    THEN BOOLEAN ELSE {TRUE}

(***************************************************************************)
(* The state machine                                                       *)
(***************************************************************************)
\* ticks is the reading of pygame's clock, played the clock time that went
\* by while the state was PLAYING
NoHistory == [started |-> FALSE, sum |-> 0, fired |-> 0, ticks |-> 0,
              played |-> 0]

\* what an operation leaves behind in last
Done(op, before, c) ==
    [op |-> IF op \in {"init", "update", "start_room_transition",
                       "save_load", "load_game", "load_game_state",
                       "select_hero_invalid", "create_hero_invalid",
                       "select_hero_unbuilt", "check_door_traversal",
                       "run_keydown", "run_mouse", "run_result", "run",
                       "run_frame", "update_camera",
                       "complete_room_transition", "set_dungeon_template",
                       "save_game", "set_game_state_call",
                       "TileMap"} THEN op
            ELSE "other",
     game_before |-> IF op \in {"select_hero_invalid", "create_hero_invalid",
                                "select_hero_unbuilt"}
                     THEN before ELSE NewGame(ScreenWidth),
     load |-> c.load,
     run_before |-> IF c.load = "none" THEN NoRun ELSE Run(before),
     steps |-> c.steps, suspended |-> c.suspended, idle |-> c.idle,
     raised |-> c.raised, fired |-> c.fired, landed |-> c.landed,
     boss_entries |-> c.boss_entries, melee |-> c.melee,
     intent |-> c.intent, ignored |-> c.ignored, door |-> c.door,
     event |-> c.event, result |-> c.result, enemy_calls |-> c.enemy_calls,
     file |-> c.file, new_state |-> c.new_state,
     dead_hero |-> /\ op = "update"
                   /\ before.state = "PLAYING"
                   /\ before.active_hero
                   /\ ~before.hero.is_alive,
     was_playing |-> op = "update" /\ before.state = "PLAYING",
     was_transitioning |->
         /\ op \in {"update", "start_room_transition"}
         /\ before.transition_manager.is_transitioning,
     had_hero |-> /\ op = "update"
                  /\ before.active_hero
                  /\ before.hero.is_alive]

\* the history after an operation that took the game from before to c.g and
\* fed dt to the transition timer: a transition that was started begins a
\* new history
History(before, c, dt) ==
    LET ran == [hist EXCEPT !.sum = Min(@ + dt, TransitionDuration),
                            !.fired = Min(@ + c.fired, 2)]
        tm0 == before.transition_manager
        tm1 == c.g.transition_manager
        restarted == /\ tm1.is_transitioning
                     /\ \/ ~tm0.is_transitioning
                        \/ tm1.elapsed < tm0.elapsed
                        \/ (dt > 0 /\ tm1.elapsed = tm0.elapsed)
    IN  IF restarted
        THEN [hist EXCEPT !.started = TRUE, !.sum = 0, !.fired = 0]
        ELSE IF hist.started THEN ran
        ELSE hist

Init ==
    /\ game = NewGame(ScreenWidth)
    /\ last = Done("init", NewGame(ScreenWidth), Context(NewGame(ScreenWidth)))
    /\ hist = NoHistory

\* the front end selects a hero for the Game it has constructed
SelectHero ==
    \E hero_type \in HeroType :
        /\ last.op = "init"
        /\ \E c \in {select_hero(Context(game), hero_type)} :
               /\ game' = c.g
               /\ last' = Done("select_hero", game, c)
               /\ hist' = History(game, c, 0)

\* a frame of run(): Game.update(dt, keys)
Update ==
    \E dt \in DtChoices : \E in \in Inputs(game, dt) :
        /\ \E c \in {update(Context(game), dt, in)} :
               /\ game' = c.g
               /\ last' = Done("update", game, c)
               /\ hist' = History(game, c,
                                  IF game.state = "PLAYING" THEN dt ELSE 0)

\* a frame of run() with the Q key down
UpdateSpecial ==
    \E dt \in DtChoices : \E in \in SpecialInputs(game, dt) :
        /\ game.state = "PLAYING"
        /\ \E c \in {update(Context(game), dt, in)} :
               /\ game' = c.g
               /\ last' = Done("update", game, c)
               /\ hist' = History(game, c, dt)

\* the inputs of a frame of dt in which the SPACE key is up and nothing
\* collides: the hero walks, and goes through the doors
QuietInputs(g, dt) ==
    {i \in Inputs(g, dt) :
        ~i.attack /\ ~i.hit /\ ~i.struck /\ i.shot = {} /\ ~i.out}

\* a frame of run() in which the hero walks and nothing fights
UpdateQuiet ==
    \E dt \in DtChoices : \E in \in QuietInputs(game, dt) :
        /\ \E c \in {update(Context(game), dt, in)} :
               /\ game' = c.g
               /\ last' = Done("update", game, c)
               /\ hist' = History(game, c,
                                  IF game.state = "PLAYING" THEN dt ELSE 0)

\* the inputs of a frame of dt in which the SPACE key is up and no swing
\* or projectile meets the enemy: the hero walks, and the enemy's attack may
\* land
UnarmedInputs(g, dt) ==
    {i \in Inputs(g, dt) : ~i.attack /\ ~i.hit /\ i.shot = {} /\ ~i.out}

\* a frame of run() in which the hero walks and does not attack
UpdateUnarmed ==
    \E dt \in DtChoices : \E in \in UnarmedInputs(game, dt) :
        /\ \E c \in {update(Context(game), dt, in)} :
               /\ game' = c.g
               /\ last' = Done("update", game, c)
               /\ hist' = History(game, c,
                                  IF game.state = "PLAYING" THEN dt ELSE 0)

\* the inputs of a frame of dt in which the hero walks with the E key
\* down, wherever it stands
InteractInputs(g, dt) ==
    IF QuietInputs(g, dt) = {NoInput} THEN {}
    ELSE {[i EXCEPT !.interact = TRUE] : i \in QuietInputs(g, dt)}

\* a frame of run() with the E key down
UpdateInteract ==
    \E dt \in DtChoices : \E in \in InteractInputs(game, dt) :
        /\ game.state = "PLAYING"
        /\ \E c \in {update(Context(game), dt, in)} :
               /\ game' = c.g
               /\ last' = Done("update", game, c)
               /\ hist' = History(game, c, dt)

\* the inputs of a frame whose active hero is dead: keys are down, nothing
\* collides
DeadInputs(g) ==
    IF g.active_hero /\ ~g.hero.is_alive
    THEN {[NoInput EXCEPT !.attack = i.attack, !.special = i.special,
                          !.interact = i.interact, !.dx = i.dx] :
             i \in {k \in [attack : BOOLEAN, special : BOOLEAN,
                           interact : BOOLEAN, dx : MoveChoices] : KeysDown(k)}}
    ELSE {}

\* a frame of run() with keys down and the active hero dead
UpdateDead ==
    \E dt \in DtChoices : \E in \in DeadInputs(game) :
        /\ game.state = "PLAYING"
        /\ \E c \in {update(Context(game), dt, in)} :
               /\ game' = c.g
               /\ last' = Done("update", game, c)
               /\ hist' = History(game, c, dt)

\* a collaborator calls set_game_state(GameState.PLAYING) on a game that
\* ended
SetGameState ==
    /\ game.state \in {"GAME_OVER", "VICTORY"}
    /\ game' = set_game_state(game, "PLAYING")
    /\ last' = Done("set_game_state", game, Context(game'))
    /\ hist' = hist

\* run(): an ESC key press
RunEscape ==
    /\ game' = run_escape(game)
    /\ last' = Done("run_escape", game, Context(game'))
    /\ hist' = hist

\* run(): a mouse click on a pause menu button
PausedMouse ==
    \E button \in {"resume", "save", "quit"} :
        /\ game.state = "PAUSED"
        /\ game' = handle_paused_mouse_input(game, button)
        /\ last' = Done("paused_mouse", game, Context(game'))
        /\ hist' = hist

\* run(): the victory or game-over menu is shown and returns an action
ResultMenu ==
    \E action \in {"main_menu", "none"} :
        /\ game.state \in {"GAME_OVER", "VICTORY"}
        /\ game' = draw_result_menu(game, action)
        /\ last' = Done("result_menu", game, Context(game'))
        /\ hist' = hist

\* handle_event: a key press other than the fullscreen key
KeyDown ==
    \E key \in Keys \ {"K_F11"} :
        \E c \in {handle_keydown(Context(game), key)} :
            /\ game' = c.g
            /\ last' = Done("keydown", game, c)
            /\ hist' = History(game, c, 0)

\* handle_event: the window is resized, maximized or restored, or the
\* fullscreen key F11 is pressed
WindowEvent ==
    /\ \/ \E w \in ResizeWidths : game' = window_resized(game, w)
       \/ game' = window_maximized(game)
       \/ game' = window_restored(game)
       \/ game' = handle_keydown(Context(game), "K_F11").g
    /\ last' = Done("window", game, Context(game'))
    /\ hist' = hist

Next ==
    \/ SelectHero
    \/ Update
    \/ RunEscape
    \/ PausedMouse
    \/ ResultMenu
    \/ KeyDown

\* the game driven by its loop: frames, keys, menus
Spec == Init /\ [][Next]_vars

NextKeys == SelectHero \/ UpdateQuiet \/ UpdateSpecial

\* one run of the game in which the hero walks and the attack and special
\* ability keys are pressed
SpecKeys == Init /\ [][NextKeys]_vars

NextResumed == SelectHero \/ Update \/ SetGameState \/ UpdateDead

\* one run of the game that a direct call of set_game_state resumes after
\* its end
SpecResumed == Init /\ [][NextResumed]_vars

\* the pause menu saves the game and the front end loads the file again
SaveLoad ==
    /\ game.state = "PAUSED"
    /\ save_game(game).ok
    /\ \E c \in {load_game(Context(game), save_game(game).file, TRUE)} :
           /\ game' = c.g
           /\ last' = Done("save_load", game, c)
           /\ hist' = History(game, c, 0)

\* the front end calls load_game() on a paused game
LoadGame ==
    \E file \in Files : \E dm_raises \in DmRaises(file) :
        /\ game.state = "PAUSED"
        /\ \E c \in {load_game(Context(game), file, dm_raises)} :
               /\ game' = c.g
               /\ last' = Done("load_game", game, c)
               /\ hist' = History(game, c, 0)

\* the front end calls load_game_state(game_state) on a paused game
LoadGameState ==
    \E file \in Files : \E dm_raises \in DmRaises(file) :
        /\ game.state = "PAUSED"
        /\ \E c \in {load_game_state(Context(game), file, dm_raises)} :
               /\ game' = c.g
               /\ last' = Done("load_game_state", game, c)
               /\ hist' = History(game, c, 0)

NextSaved ==
    \/ SelectHero
    \/ UpdateQuiet
    \/ KeyDown
    \/ SaveLoad
    \/ LoadGame
    \/ LoadGameState

\* a walk through the dungeon that is paused with the ESC key, saved and
\* loaded
SpecSaved == Init /\ [][NextSaved]_vars

\* the front end calls set_dungeon_template(template)
SetDungeonTemplate ==
    \E template \in DungeonTemplate :
        /\ game' = set_dungeon_template(game, template)
        /\ last' = Done("set_dungeon_template", game, Context(game'))
        /\ hist' = hist

\* the pause menu saves the game
SaveGame ==
    /\ game.state = "PAUSED"
    /\ \E c \in {save_game_call(Context(game))} :
           /\ game' = c.g
           /\ last' = Done("save_game", game, c)
           /\ hist' = hist

NextTemplate ==
    \/ SelectHero
    \/ UpdateQuiet
    \/ KeyDown
    \/ SetDungeonTemplate
    \/ SaveGame
    \/ SaveLoad

\* a walk through the dungeon during which the front end sets the template
\* of the next game, and which is paused, saved and loaded
SpecTemplate == Init /\ [][NextTemplate]_vars

\* a collaborator calls set_game_state with any value, in any state
SetGameStateCall ==
    \E new_state \in GameState \cup NoGameState :
        \E c \in {set_game_state_call(Context(game), new_state)} :
            /\ game' = c.g
            /\ last' = Done("set_game_state_call", game, c)
            /\ hist' = hist

NextStates == SelectHero \/ UpdateQuiet \/ SetGameStateCall

\* a walk through the dungeon during which a collaborator sets the state
SpecStates == Init /\ [][NextStates]_vars

(***************************************************************************)
(* The tile map (tiles.py).  A CSV file is the list of its rows, a row the *)
(* list of its cells, as read_csv returns them; the sprite sheet only cuts *)
(* the image of a tile and is left out.                                    *)
(***************************************************************************)
\* self.tile_size
tile_size == 16

\* Tile(image, x, y, spritesheet)
Tile(image, x, y) == [image |-> image, x |-> x, y |-> y]

\* the body of the loop over the cells of a row, at column st.x of row st.y
load_cell(st, tile) ==
    [(IF tile = "0"
      THEN [st EXCEPT !.start_x = st.x * tile_size,
                      !.start_y = st.y * tile_size]
      ELSE IF tile = "1"
      THEN [st EXCEPT !.tiles = Append(@, Tile("ground.png", st.x * tile_size,
                                               st.y * tile_size))]
      ELSE IF tile = "2"
      THEN [st EXCEPT !.tiles = Append(@, Tile("ground2.png", st.x * tile_size,
                                               st.y * tile_size))]
      ELSE st) EXCEPT !.x = @ + 1]

\* the loop over the cells of a row, from cell i on
RECURSIVE load_row(_, _, _)
load_row(st, row, i) ==
    IF i > Len(row) THEN st ELSE load_row(load_cell(st, row[i]), row, i + 1)

\* the loop over the rows, from row j on
RECURSIVE load_rows(_, _, _)
load_rows(st, map, j) ==
    IF j > Len(map) THEN st
    ELSE load_rows([load_row([st EXCEPT !.x = 0], map[j], 1)
                       EXCEPT !.y = @ + 1], map, j + 1)

\* load_tiles(filename): the tile map after the call, and the list returned
load_tiles(tm, map) ==
    With(load_rows([tiles |-> <<>>, start_x |-> tm.start_x,
                    start_y |-> tm.start_y, x |-> 0, y |-> 0], map, 1),
         LAMBDA st :
             [self |-> [tm EXCEPT !.has = @ \cup {"map_w", "map_h"},
                                  !.start_x = st.start_x,
                                  !.start_y = st.start_y,
                                  !.map_w = st.x * tile_size,
                                  !.map_h = st.y * tile_size],
              tiles |-> st.tiles])

\* the tile map after the first three statements of __init__; has names
\* the attributes assigned so far
NoTileMap ==
    [has |-> {"tile_size", "start_x", "start_y", "spritesheet"},
     start_x |-> 0, start_y |-> 0, tiles |-> <<>>, map_w |-> 0, map_h |-> 0,
     map_surface |-> <<0, 0>>]

\* TileMap(filename, spritesheet): the object as __init__ leaves it, and the
\* exception that ends the construction.  The last statement calls
\* load_tiles without the file name it requires.
TileMap(map) ==
    With(load_tiles(NoTileMap, map), LAMBDA loaded :
        [self |-> [loaded.self EXCEPT
                       !.has = @ \cup {"tiles", "map_surface"},
                       !.tiles = loaded.tiles,
                       !.map_surface = <<loaded.self.map_w, loaded.self.map_h>>],
         raised |-> "TypeError"])

\* most rows of a CSV file followed
MaxRows == 2

\* most cells of a row followed
MaxColumns == 2

\* the cells: the start marker, the two kinds of ground, and two values that
\* stand for nothing
Cells == {"0", "1", "2", "3", ""}

CsvRows == UNION {[1..n -> Cells] : n \in 0..MaxColumns}

CsvFiles == UNION {[1..n -> CsvRows] : n \in 0..MaxRows}

\* a CSV file on disk, and no tile map yet
InitTiles ==
    \E map \in CsvFiles :
        /\ game = [map |-> map, constructed |-> FALSE, tile_map |-> NoTileMap,
                   raised |-> None]
        /\ last = Done("init", game, Context(game))
        /\ hist = NoHistory

\* TileMap(filename, spritesheet) is constructed from the file
ConstructTileMap ==
    /\ ~game.constructed
    /\ \E made \in {TileMap(game.map)} :
           game' = [game EXCEPT !.constructed = TRUE,
                                !.tile_map = made.self,
                                !.raised = made.raised]
    /\ last' = Done("TileMap", game, Context(game'))
    /\ hist' = hist

NextTiles == ConstructTileMap

\* tile maps constructed from small CSV files
SpecTiles == InitTiles /\ [][NextTiles]_vars

\* a collaborator calls select_hero with a value that is no HeroType member
SelectHeroCall ==
    \E hero_type \in InvalidHeroTypes :
        \E c \in {select_hero(Context(game), hero_type)} :
            /\ game' = c.g
            /\ last' = Done("select_hero_invalid", game, c)
            /\ hist' = History(game, c, 0)

\* a collaborator calls _create_hero(hero_type, 0, 0): with a HeroType
\* member once per run, with another value at any time
CreateHeroCall ==
    \E hero_type \in HeroType \cup InvalidHeroTypes :
        /\ hero_type \in HeroType =>
               game.active_hero /\ "spare_hero" \notin game.all_sprites
        /\ \E c \in {create_hero(Context(game), hero_type)} :
               /\ game' = c.g
               /\ last' = Done(IF hero_type \in HeroType THEN "create_hero"
                                ELSE "create_hero_invalid", game, c)
               /\ hist' = History(game, c, 0)

NextCalled == SelectHero \/ UpdateQuiet \/ SelectHeroCall \/ CreateHeroCall

\* a walk through the dungeon with direct calls of select_hero and
\* _create_hero
SpecCalled == Init /\ [][NextCalled]_vars

\* select_hero(hero_type) is called, on the game as it was constructed or
\* during a run, and the dungeon cannot be built
SelectHeroUnbuilt ==
    \E hero_type \in HeroType : \E built \in DungeonOutcomes \ {"room"} :
        /\ last.op = "init" \/ game.heroes # {}
        /\ \E c \in {select_hero_built(Context(game), hero_type, built)} :
               /\ game' = c.g
               /\ last' = Done("select_hero_unbuilt", game, c)
               /\ hist' = History(game, c, 0)

\* a game whose knight has the box (x, y, width, height)
BoxedGame(x, y, width, height) ==
    [select_hero(Context(NewGame(ScreenWidth)), "KNIGHT").g
         EXCEPT !.hero.x = x, !.hero.y = y,
                !.hero.width = width, !.hero.height = height]

InitBoxed ==
    \E x \in BoxXs : \E y \in BoxYs :
        \E width \in BoxSides : \E height \in BoxSides :
            /\ game = BoxedGame(x, y, width, height)
            /\ last = Done("init", game, Context(game))
            /\ hist = NoHistory

\* update calls _check_door_traversal(prev_x, prev_y), once for a box
CheckDoorTraversal ==
    \E interact \in BOOLEAN :
        /\ last.op = "init"
        /\ \E c \in {door_step(Context(game),
                                [NoInput EXCEPT !.interact = interact])} :
               /\ game' = c.g
               /\ last' = Done("check_door_traversal", game, c)
               /\ hist' = History(game, c, 0)

\* the door check tried on heroes of every box
SpecBoxed == InitBoxed /\ [][CheckDoorTraversal]_vars

\* run(): a key press arrives in the event loop
RunKeyDown ==
    \E key \in Keys :
        /\ key # "K_ESCAPE" =>
               game.state \in {"HERO_SELECT", "GAME_OVER", "VICTORY"}
        /\ \E c \in {run_keydown(Context(game), key)} :
               /\ game' = c.g
               /\ last' = Done("run_keydown", game, c)
               /\ hist' = History(game, c, 0)

\* run(): a click on a button of the pause menu arrives in the event loop
RunMouse ==
    \E button \in {"resume", "save", "quit"} :
        /\ game.state = "PAUSED"
        /\ \E c \in {run_mouse(Context(game), button)} :
               /\ game' = c.g
               /\ last' = Done("run_mouse", game, c)
               /\ hist' = History(game, c, 0)

\* run(): the frame of a game that ended shows the result screen
RunResult ==
    \E action \in {"main_menu", "none"} :
        /\ game.state \in {"GAME_OVER", "VICTORY"}
        /\ \E c \in {run_result(Context(game), action)} :
               /\ game' = c.g
               /\ last' = Done("run_result", game, c)
               /\ hist' = History(game, c, 0)

NextRun ==
    SelectHero \/ UpdateUnarmed \/ RunKeyDown \/ RunMouse \/ RunResult

\* the game driven by run() alone, its frames and its event loop, with a
\* hero that walks and does not attack
SpecRun == Init /\ [][NextRun]_vars

\* a game with a camera: the knight stands at x on the floor of room, the
\* dungeon manager has gone on to the room to through the door towards
\* entry, the window is width by height and the camera is at (cx, cy).
\* Without an active hero it is the game _reset_game() leaves
CameraGame(room, to, entry, x, width, height, cx, cy, active) ==
    With([select_hero(Context(NewGame(width)), "KNIGHT").g
              EXCEPT !.current_room = room,
                     !.dungeon_manager.current_room = to,
                     !.dungeon_manager.entry_direction = entry,
                     !.hero.x = x,
                     !.hero.y = room_floor_y("SQUARE", room) - 64],
         LAMBDA g : (IF active THEN g ELSE reset_game(g))
                        @@ [height |-> height, camera_x |-> cx,
                            camera_y |-> cy])

\* the rooms, places, windows and cameras the camera is tried on: the start
\* room and the boss room, the hero at a wall or in the middle, a window
\* smaller than a room and the window the game is created with
CameraRooms == {StartRoomOf("SQUARE"), BossRoomOf("SQUARE")}

CameraXs == {0, 736, 1472}

WindowWidths == {400, ScreenWidth}

WindowHeights == {400, 600}

CameraStartXs == {0, 300, 736}

CameraStartYs == {0, 200}

InitCamera ==
    \E room \in CameraRooms : \E to \in CameraRooms :
    \E entry \in {"RIGHT", "DOWN"} : \E x \in CameraXs :
    \E width \in WindowWidths : \E height \in WindowHeights :
    \E cx \in CameraStartXs : \E cy \in CameraStartYs :
    \E active \in BOOLEAN :
        /\ x + 64 <= room_width("SQUARE", room)
        /\ game = CameraGame(room, to, entry, x, width, height, cx, cy,
                             active)
        /\ last = Done("init", game, Context(game))
        /\ hist = NoHistory

\* update calls _update_camera()
UpdateCamera ==
    /\ game' = update_camera(game)
    /\ last' = Done("update_camera", game, Context(game'))
    /\ hist' = hist

\* the transition manager calls _complete_room_transition()
CompleteRoomTransition ==
    \E c \in {complete_room_transition_camera(Context(game))} :
        /\ game' = c.g
        /\ last' = Done("complete_room_transition", game, c)
        /\ hist' = hist

NextCamera == UpdateCamera \/ CompleteRoomTransition

\* the camera tried on games with every room, place, window and camera
SpecCamera == InitCamera /\ [][NextCamera]_vars

\* a collaborator calls the public cleanup() during a run
Cleanup ==
    /\ game.heroes # {}
    /\ game' = cleanup(game)
    /\ last' = Done("cleanup", game, Context(game'))
    /\ hist' = History(game, Context(game'), 0)

NextCleanup == SelectHero \/ UpdateQuiet \/ Cleanup

\* a walk through the dungeon with calls of cleanup()
SpecCleanup == Init /\ [][NextCleanup]_vars

\* run() is called, when the clock reads hist.ticks
RunEnter ==
    /\ ~game.running
    /\ game.heroes # {}
    /\ \E c \in {[Context(game) EXCEPT !.g = run_enter(game, hist.ticks)]} :
           /\ game' = c.g
           /\ last' = Done("run", game, c)
           /\ hist' = History(game, c, 0)

\* the inputs of the update of a frame of dt, after the event of the
\* frame: the hero stands or walks to the right, and does not attack
ClockInputs(g, dt, event) ==
    {i \in UnarmedInputs(run_event(Context(g), event).g, dt) :
        i.dx >= 0}

\* the actions a result screen of the frame can return: none where the
\* frame shows no result screen
Shown(g, dt, event, in) ==
    IF Ended(run_update(run_event(Context(g), event), 0, dt, in).g)
    THEN {"main_menu", "none"} ELSE {"none"}

\* run(): one turn of the loop.  The clock goes on by dt in tick(), and by
\* dt in each result screen the frame shows
RunFrame ==
    \E dt \in FrameTimes : \E event \in RunEvents :
    \E in \in ClockInputs(game, dt, event) :
    \E first, second \in Shown(game, dt, event, in) :
        /\ game.running
        /\ hist.ticks + dt <= MaxTicks
        /\ event \in {"resume", "quit"} => game.state = "PAUSED"
        /\ event = "QUIT" => game.state = "HERO_SELECT"
        /\ \E c \in {IF game.state = "MENU" THEN run_menu(Context(game))
                     ELSE run_frame(Context(game), hist.ticks + dt, dt,
                                    event, in, first, second)} :
               /\ hist.ticks + dt * (1 + Screens(game, c.g)) <= MaxTicks
               /\ game' = c.g
               /\ last' = Done("run_frame", game, c)
               /\ hist' = [History(game, c, IF c.steps # <<>> THEN dt ELSE 0)
                               EXCEPT !.ticks = @ + dt * (1 + Screens(game, c.g)),
                                      !.played = IF game.state = "PLAYING"
                                                 THEN @ + dt ELSE @]

NextClock == SelectHero \/ RunEnter \/ RunFrame

\* the game driven by calls of run(), with the clock that measures the
\* play time
SpecClock == Init /\ [][NextClock]_vars

NextDoors == SelectHero \/ UpdateQuiet \/ UpdateInteract

\* a walk through the dungeon, with the E key down at the doors and away
\* from them
SpecDoors == Init /\ [][NextDoors]_vars

NextUnbuilt == SelectHero \/ UpdateQuiet \/ SelectHeroUnbuilt

\* a walk through the dungeon, and selections of a hero whose dungeon
\* cannot be built
SpecUnbuilt == Init /\ [][NextUnbuilt]_vars

NextWindow == SelectHero \/ UpdateQuiet \/ WindowEvent

\* a walk through the dungeon while the window is resized and toggled
SpecWindow == Init /\ [][NextWindow]_vars

\* a collaborator calls _start_room_transition(door) itself
StartRoomTransition ==
    /\ game' = start_room_transition(game)
    /\ last' = Done("start_room_transition", game, Context(game'))
    /\ hist' = History(game, Context(game'), 0)

NextApi == SelectHero \/ UpdateQuiet \/ StartRoomTransition

\* a walk through the dungeon with direct calls of _start_room_transition
SpecApi == Init /\ [][NextApi]_vars

(***************************************************************************)
(* Properties                                                              *)
(***************************************************************************)
TypeOK ==
    /\ game.state \in GameState
    /\ game.heroes \subseteq HeroType
    /\ Cardinality(game.heroes) <= 1
    /\ hist.sum \in 0..TransitionDuration

\* the steps of a frame, in the order the design document, section 4.5, lists
HeroOrder == <<"attack", "move", "door", "pillar">>

WorldOrder ==
    <<"sprites", "hero_enemy", "projectile", "platform", "floor", "entities",
      "camera", "evaluate">>

FullOrder == HeroOrder \o WorldOrder

\* the steps that are gameplay: input, door triggers, collisions, enemies,
\* camera smoothing
Gameplay ==
    {"attack", "move", "door", "hero_enemy", "projectile", "platform", "floor",
     "entities", "camera"}

\* C1: a call of _start_room_transition while a transition is in flight
\* changes nothing: the one transition keeps its elapsed time, its duration
\* and its callback, and no second callback is registered.
C1_StartWhileActiveIsNoOp ==
    [][(StartRoomTransition /\ game.transition_manager.is_transitioning)
           => game' = game]_vars

\* a direct call arrived in the middle of a transition
C1_Witness ==
    /\ last.op = "start_room_transition"
    /\ last.was_transitioning
    /\ game.transition_manager.is_transitioning
    /\ game.transition_manager.elapsed > 0

\* C2: a started transition is never cancelled, whatever event arrives: a
\* transition in flight whose callback has not run is, after every step,
\* still that transition in flight, or its callback ran in the step.
C2_TransitionNeverCancelled ==
    [][(/\ game.transition_manager.is_transitioning
        /\ ~game.transition_manager.callback_done)
           => \/ last'.fired > 0
              \/ /\ game'.transition_manager.is_transitioning
                 /\ ~game'.transition_manager.callback_done
                 /\ game'.transition_manager.callback =
                        game.transition_manager.callback
                 /\ game'.transition_manager.elapsed >=
                        game.transition_manager.elapsed]_vars

\* C3: once the PLAYING frames since a transition started sum to its
\* duration, the manager is idle and the callback ran exactly once; the
\* callback has run exactly when the frames sum to half the duration.
C3_CompletesWithOneCallback ==
    hist.started =>
        /\ hist.fired <= 1
        /\ hist.fired = 1 <=> 2 * hist.sum >= TransitionDuration
        /\ hist.sum >= TransitionDuration =>
               ~game.transition_manager.is_transitioning

\* C4: no gameplay step of update runs while a transition is in flight,
\* the rest of the frame in which the door was crossed included.
C4_GameplaySuspended ==
    last.suspended \cap Gameplay = {}

\* C5 as stated: every PLAYING frame that finds no transition in flight
\* runs all the steps, once each, in the fixed order.
C5_AllStepsInOrder ==
    (last.op = "update" /\ last.was_playing /\ last.idle)
        => last.steps = FullOrder

\* C5: a PLAYING frame that finds no transition in flight runs all the
\* steps, once each, in the fixed order when the active hero is alive, and
\* the steps from the sprite update on, in that order, when it is not.
C5_StepsInOrder ==
    (last.op = "update" /\ last.was_playing /\ last.idle)
        => last.steps = IF last.had_hero THEN FullOrder ELSE WorldOrder

\* a frame with a living hero ran the twelve steps
C5_Witness ==
    /\ last.op = "update"
    /\ last.idle
    /\ last.had_hero
    /\ Len(last.steps) = Len(FullOrder)

\* the last frame ran the win/loss evaluation
Evaluated ==
    /\ last.op = "update"
    /\ Len(last.steps) > 0
    /\ last.steps[Len(last.steps)] = "evaluate"

AllEnemiesDead ==
    \A i \in 1..Len(game.enemies) : ~game.enemies[i].is_alive

\* C6: when a frame that evaluates win and loss returns with every hero
\* dead, the state is GAME_OVER, whatever the enemies are.
C6_AllHeroesDeadIsGameOver ==
    (Evaluated /\ game.heroes # {} /\ ~game.hero.is_alive)
        => game.state = "GAME_OVER"

\* the hero died in front of a living enemy
C6_Witness ==
    /\ Evaluated
    /\ game.heroes # {}
    /\ game.hero.health = 0
    /\ ~game.hero.is_alive
    /\ Len(game.enemies) > 0
    /\ game.enemies[1].is_alive
    /\ game.state = "GAME_OVER"

\* C7: when a frame that evaluates win and loss returns with a non-empty
\* enemy list in which every enemy is dead, the state is VICTORY; and the
\* state is never VICTORY with an empty enemy list.
C7_VictoryOnlyOverEnemies ==
    /\ (Evaluated /\ Len(game.enemies) > 0 /\ AllEnemiesDead)
           => game.state = "VICTORY"
    /\ game.state = "VICTORY" => Len(game.enemies) > 0

\* the frame in which the last enemy of the room died
C7_Witness ==
    /\ Evaluated
    /\ last.was_playing
    /\ Len(game.enemies) > 0
    /\ AllEnemiesDead
    /\ game.state = "VICTORY"

\* C8: from GAME_OVER and from VICTORY no step changes the state, except
\* the reset, which leaves the game as _reset_game does, in HERO_SELECT.
C8_EndStatesTerminal ==
    [][game.state \in {"GAME_OVER", "VICTORY"}
           => \/ game'.state = game.state
              \/ game' = reset_game(game) /\ game'.state = "HERO_SELECT"]_vars

\* update was called on a game that is over
C8_Witness ==
    /\ game.state \in {"GAME_OVER", "VICTORY"}
    /\ last.op = "update"
    /\ ~last.was_playing

\* C9: the completion callback leaves the hero inside the room that is now
\* current, standing on its floor, with ground_y at the floor less the
\* hero's height.
C9_HeroPlacedInNewRoom ==
    (last.landed.active_hero /\ last.landed.current_room # NoRoom) =>
        LET hero  == last.landed.hero
            width == room_width(last.landed.template, last.landed.current_room)
            floor_y ==
                room_floor_y(last.landed.template, last.landed.current_room)
        IN  /\ 0 <= hero.x
            /\ hero.x <= width - hero.width
            /\ hero.y + hero.height = floor_y
            /\ hero.ground_y = floor_y - hero.height

\* the hero arrived in the boss room
C9_Witness ==
    /\ last.fired = 1
    /\ last.landed.active_hero
    /\ last.landed.current_room # NoRoom
    /\ is_boss_room(last.landed.template, last.landed.current_room)
    /\ game.current_room = last.landed.current_room

\* C10: when a PLAYING frame returns, the active hero's box lies inside the
\* current room: 0 <= x, x + width <= room width, y + height <= floor_y.
C10_HeroInsideRoom ==
    (/\ last.op = "update"
     /\ last.was_playing
     /\ game.active_hero
     /\ game.current_room # NoRoom)
        => /\ 0 <= game.hero.x
           /\ game.hero.x + game.hero.width <= CurrentWidth(game)
           /\ game.hero.y + game.hero.height <= CurrentFloorY(game)

\* C11: no projectile is in flight in a room other than the one it was
\* fired in; the transition's completion leaves the projectile list empty.
C11_ProjectilesStayInRoom ==
    /\ last.landed.active_hero => last.landed.projectiles = {}
    /\ game.current_room # NoRoom =>
           \A q \in game.projectiles : q.origin = game.current_room

\* the completion of a transition leaves the projectile list empty
C11_ClearedOnCompletion ==
    last.fired > 0 /\ last.raised = None => last.landed.projectiles = {}

\* a transition completed in the last frame: the room change is done
RoomChanged == last.fired > 0 /\ last.raised = None

\* C12: after a room change the enemy list holds exactly one boss in the
\* boss room, between 1 and 3 enemies in a normal room, and none in the
\* start room.
C12_SpawnPolicy ==
    RoomChanged =>
        LET room == last.landed.current_room
            template == last.landed.template
            n == Len(last.landed.enemies)
        IN  IF is_boss_room(template, room)
            THEN n = 1 /\ last.landed.enemies[1].kind = "boss"
            ELSE IF is_start_room(template, room) THEN n = 0
            ELSE n \in 1..3

\* C13: no enemy spawned in a room that was left remains in a collection
\* the frame updates or collides against: every enemy in the enemy list,
\* in enemy_sprites and in all_sprites is an enemy of the current room.
C13_NoEnemyFromPreviousRoom ==
    /\ "stale_enemy" \notin game.all_sprites \cup game.enemy_sprites
    /\ "enemy" \in game.all_sprites \cup game.enemy_sprites
           => Len(game.enemies) > 0

\* C14: the boss hook runs once in a room change that ends in the boss
\* room, and not at all in any other operation.
C14_BossHookOncePerEntry ==
    last.boss_entries =
        IF /\ RoomChanged
           /\ is_boss_room(last.landed.template, last.landed.current_room)
        THEN 1 ELSE 0

\* a room change ended in the boss room, another one outside it
C14_Witness ==
    /\ RoomChanged
    /\ is_boss_room(last.landed.template, last.landed.current_room)
    /\ last.boss_entries = 1

\* C15: the hero-attack-vs-enemy step damages an enemy only when the swing
\* overlaps it, the hero is alive and attacking, the enemy is alive and not
\* yet in the swing's hit set; no swing damages an enemy twice.
C15_OneHitPerSwing ==
    /\ last.melee.applied =>
           /\ last.melee.overlap
           /\ last.melee.hero_alive
           /\ last.melee.is_attacking
           /\ last.melee.enemy_alive
           /\ ~last.melee.in_targets
    /\ game.hero # NoHero => game.hero.swing_hits <= 1

\* a swing that had damaged the enemy overlapped it again in a later
\* frame, and the enemy, still alive, lost no health
C15_Witness ==
    /\ last.melee.overlap
    /\ last.melee.in_targets
    /\ last.melee.is_attacking
    /\ last.melee.enemy_alive
    /\ ~last.melee.applied
    /\ game.hero.swing_hits = 1

\* C16: update activates the attack only in a frame with the attack key
\* down and attack_cooldown_remaining <= 0, and the special ability only
\* with the special key down and special_cooldown_remaining <= 0.
C16_ActivationGatedByCooldown ==
    /\ last.intent.attacked =>
           last.intent.attack /\ last.intent.attack_cooldown <= 0
    /\ last.intent.specialed =>
           last.intent.special /\ last.intent.special_cooldown <= 0

\* both keys were held while both cooldowns were running, and nothing was
\* activated
C16_Witness ==
    /\ last.intent.attack /\ last.intent.attack_cooldown > 0
    /\ last.intent.special /\ last.intent.special_cooldown > 0
    /\ ~last.intent.attacked
    /\ ~last.intent.specialed

\* C17: in a frame of update whose active hero is not alive, no attack and
\* no special ability is activated, and the movement, door traversal and
\* pillar collection steps of the hero do not run.
C17_DeadHeroAcceptsNoInput ==
    last.dead_hero =>
        /\ \A i \in 1..Len(last.steps) :
               last.steps[i] \notin {"attack", "move", "door", "pillar"}
        /\ ~last.intent.attacked
        /\ ~last.intent.specialed

\* keys were down in a frame that found no transition in flight and a dead
\* active hero, and the frame ran to its evaluation
C17_Witness ==
    /\ last.dead_hero
    /\ last.ignored
    /\ last.idle
    /\ Len(last.steps) > 0
    /\ last.steps[Len(last.steps)] = "evaluate"

\* C18: after save_game followed by load_game of the same file, the hero's
\* position and health, the room of the dungeon manager, the room update
\* treats as current, the hero type and the dungeon template are what they
\* were when the game was saved.
C18_SaveLoadRoundTrip ==
    last.op = "save_load" /\ last.load = "ok" =>
        /\ game.hero.x = last.run_before.hero.x
        /\ game.hero.y = last.run_before.hero.y
        /\ game.hero.health = last.run_before.hero.health
        /\ game.dungeon_manager.current_room =
               last.run_before.dungeon_manager.current_room
        /\ game.current_room = last.run_before.current_room
        /\ game.selected_hero_type = last.run_before.selected_hero_type
        /\ game.dungeon_template = last.run_before.dungeon_template

\* the same without the room update treats as current: what save_game
\* writes, load_game restores
C18_SavedFieldsRestored ==
    last.op = "save_load" /\ last.load = "ok" =>
        /\ game.hero.x = last.run_before.hero.x
        /\ game.hero.y = last.run_before.hero.y
        /\ game.hero.health = last.run_before.hero.health
        /\ game.dungeon_manager.current_room =
               last.run_before.dungeon_manager.current_room
        /\ game.selected_hero_type = last.run_before.selected_hero_type
        /\ game.dungeon_template = last.run_before.dungeon_template

\* C19: a load that returns False leaves the run in memory (selected hero
\* type, dungeon template, heroes, enemies, current room, play time) as it
\* was before the call.
C19_FailedLoadIsAtomic ==
    last.load = "failed" => Run(game) = last.run_before

\* C20: select_hero and _create_hero called with a value that is no
\* HeroType member raise ValueError and leave the game as it was: selected
\* hero type, selection flag, game state, heroes, enemies and dungeon.
C20_InvalidHeroTypeRejected ==
    last.op \in {"select_hero_invalid", "create_hero_invalid"} =>
        /\ last.raised = "ValueError"
        /\ game.selected_hero_type = last.game_before.selected_hero_type
        /\ game.hero_selection_made = last.game_before.hero_selection_made
        /\ game.state = last.game_before.state
        /\ game.heroes = last.game_before.heroes
        /\ game.hero = last.game_before.hero
        /\ game.enemies = last.game_before.enemies
        /\ game.dungeon_manager = last.game_before.dungeon_manager
        /\ game.current_room = last.game_before.current_room
        /\ game.all_sprites = last.game_before.all_sprites

\* select_hero was called with an invalid type on a game with a run in
\* progress, and raised
C20_Witness ==
    /\ last.op = "select_hero_invalid"
    /\ last.raised = "ValueError"
    /\ game.active_hero
    /\ Len(game.enemies) > 0

\* C21: when the dungeon cannot be built during select_hero, the error is
\* raised to the caller and no run is started: the game is not left in
\* PLAYING, no hero is created or made active, and the heroes and enemies
\* of the run before are still there.
C21_DungeonFailureStartsNoRun ==
    last.op = "select_hero_unbuilt" =>
        /\ last.raised # None
        /\ game.state # "PLAYING"
        /\ game.active_hero = last.game_before.active_hero
        /\ game.hero = last.game_before.hero
        /\ game.heroes = last.game_before.heroes
        /\ game.enemies = last.game_before.enemies

\* the game holds no run: no current room, no dungeon manager or no active
\* hero
MissingRun(g) ==
    \/ g.current_room = NoRoom
    \/ g.dungeon_manager = NoDungeonManager
    \/ ~g.active_hero

\* C22: update called on a game that holds no run (no current room, no
\* dungeon manager or no active hero) returns without raising, and leaves
\* the room, the hero and the enemies as they were.
C22_MissingRunIsNoOp ==
    [][(last'.op = "update" /\ MissingRun(game))
           => /\ last'.raised = None
              /\ game'.current_room = game.current_room
              /\ game'.dungeon_manager = game.dungeon_manager
              /\ game'.active_hero = game.active_hero
              /\ game'.hero = game.hero
              /\ game'.enemies = game.enemies]_vars

\* C23: a walk-through (LEFT/RIGHT) door starts a transition when the feet
\* overlap it, whatever the keys; an interactive (UP/DOWN) door starts one
\* only in a frame with the E key down, and is not tried once the
\* walk-through door was entered; a frame goes through one door at most and
\* starts one transition at most.
C23_DoorClasses ==
    /\ last.door.walk =>
           last.door.started = 1 /\ last.door.entered \in {"LEFT", "RIGHT"}
    /\ (~last.door.walk /\ last.door.interactive /\ last.door.key) =>
           last.door.started = 1 /\ last.door.entered \in {"UP", "DOWN"}
    /\ (~last.door.walk /\ ~(last.door.interactive /\ last.door.key)) =>
           last.door.started = 0 /\ last.door.entered = None
    /\ last.door.doors <= 1
    /\ last.door.started <= 1

\* the hero went through a walk-through door with the E key down
C23_Witness ==
    /\ last.door.walk
    /\ last.door.key
    /\ last.door.started = 1
    /\ last.door.doors = 1
    /\ game.dungeon_manager.entry_direction \in {"LEFT", "RIGHT"}
    /\ game.transition_manager.is_transitioning

\* the margins the feet rectangle leaves in the box to its left and right
LeftMargin(d) == d.feet.x - d.box.x

RightMargin(d) == (d.box.x + d.box.width) - (d.feet.x + d.feet.width)

\* C24 as stated: the rectangle handed to the door check is horizontally
\* centered in the hero's box, a quarter of the box's width wide, 16 units
\* tall, and its bottom edge is the box's bottom edge.
C24_FeetQuarterWidth ==
    last.door.box.width > 0 =>
        /\ LeftMargin(last.door) = RightMargin(last.door)
        /\ last.door.feet.width = last.door.box.width \div 4
        /\ last.door.feet.height = FeetHeight
        /\ last.door.feet.y + last.door.feet.height =
               last.door.box.y + last.door.box.height

\* C24: the rectangle handed to the door check starts a quarter of the
\* box's width (rounded down) from the box's left edge and is half the
\* box's width (rounded down) wide, so that its right margin exceeds its
\* left margin by 2 at most and equals it when the width is a multiple of
\* 4; it is 16 units tall and its bottom edge is the box's bottom edge.
C24_FeetHalfWidth ==
    last.door.box.width > 0 =>
        /\ LeftMargin(last.door) = last.door.box.width \div 4
        /\ last.door.feet.width = last.door.box.width \div 2
        /\ RightMargin(last.door) - LeftMargin(last.door) \in 0..2
        /\ last.door.box.width % 4 = 0 =>
               LeftMargin(last.door) = RightMargin(last.door)
        /\ last.door.feet.height = FeetHeight
        /\ last.door.feet.y + last.door.feet.height =
               last.door.box.y + last.door.box.height

\* the door check ran on a box whose width is no multiple of 4 and that is
\* lower than the feet rectangle is tall
C24_Witness ==
    /\ last.op = "check_door_traversal"
    /\ last.door.box.width = 7
    /\ last.door.box.height = 5
    /\ last.door.feet.width = 3
    /\ last.door.feet.x = last.door.box.x + 1

\* the health of the hero is in range, and a hero without health is dead
HealthInRange(hero) ==
    /\ hero.health >= 0
    /\ hero.health <= hero_max_health(hero.hero_type)
    /\ hero.health = 0 => ~hero.is_alive

\* C25: in every state the hero's health is in [0, max_health] and a hero
\* with health 0 is not alive, right after a load restored the health from
\* a record as well; and no operation other than a load raises the health
\* of the hero of a run.
C25_HealthInRangeAndFalling ==
    /\ [](game.hero # NoHero => HealthInRange(game.hero))
    /\ [][(/\ game.heroes # {}
           /\ game'.heroes = game.heroes
           /\ last'.load = "none")
              => game'.hero.health <= game.hero.health]_vars

\* the room the dungeon manager holds as current
ManagersRoom(g) ==
    IF g.dungeon_manager = NoDungeonManager THEN NoRoom
    ELSE g.dungeon_manager.current_room

\* C26: whenever no transition is in flight, the room the game uses for
\* bounds, floor, camera and spawning (_current_room) is the current room
\* of the dungeon manager: after the dungeon was initialized, after every
\* door traversal that completed, and after a load.
C26_CurrentRoomIsManagersRoom ==
    ~game.transition_manager.is_transitioning
        => game.current_room = ManagersRoom(game)

\* C27: when the victory or game-over screen returns "main_menu", run
\* finds the state MENU, stops the loop and returns "menu".
C27_MainMenuEndsRun ==
    (last.op = "run_result" /\ last.event = "main_menu")
        => last.result = "menu"

\* the hero a key of the hero selection stands for
HeroOfKey(key) ==
    CASE key = "K_1" -> "KNIGHT"
      [] key = "K_2" -> "ARCHER"
      [] key = "K_3" -> "CLERIC"

\* C28: while run loops in HERO_SELECT, a press of the key 1, 2 or 3 leads
\* to PLAYING with the knight, the archer or the cleric active; in
\* GAME_OVER and VICTORY a press of SPACE leads to the reset, HERO_SELECT.
C28_KeysSelectAndReset ==
    [][last'.op = "run_keydown" =>
          /\ (game.state = "HERO_SELECT" /\ last'.event \in {"K_1", "K_2", "K_3"})
                 => /\ game'.state = "PLAYING"
                    /\ game'.active_hero
                    /\ game'.hero.hero_type = HeroOfKey(last'.event)
          /\ (game.state \in {"GAME_OVER", "VICTORY"} /\ last'.event = "K_SPACE")
                 => game'.state = "HERO_SELECT"]_vars

\* C29: update called in a state other than PLAYING changes nothing: the
\* hero, the enemies, the projectiles, the current room, the state and the
\* transition timer are what they were, so that a transition in flight when
\* the game was paused goes on from the same elapsed time.
C29_UpdateOutsidePlayingIsNoOp ==
    [][(last'.op = "update" /\ game.state # "PLAYING") =>
          /\ game' = game
          /\ last'.steps = <<>>
          /\ last'.fired = 0]_vars

\* update was called on a game paused in the middle of a transition
C29_Witness ==
    /\ last.op = "update"
    /\ ~last.was_playing
    /\ game.state = "PAUSED"
    /\ game.transition_manager.is_transitioning
    /\ game.transition_manager.elapsed > 0
    /\ ~game.transition_manager.callback_done

\* C30: in run an ESC key press takes PLAYING to PAUSED and PAUSED to
\* PLAYING and leaves the game in every other state as it is; the resume
\* button of the pause menu takes PAUSED to PLAYING, its save and quit
\* buttons leave the state PAUSED.
C30_EscTogglesPause ==
    [][/\ (last'.op = "run_keydown" /\ last'.event = "K_ESCAPE") =>
              CASE game.state = "PLAYING" ->
                       game' = [game EXCEPT !.state = "PAUSED"]
                [] game.state = "PAUSED" ->
                       game' = [game EXCEPT !.state = "PLAYING"]
                [] OTHER -> game' = game
       /\ (last'.op = "run_mouse" /\ game.state = "PAUSED") =>
              game'.state = IF last'.event = "resume" THEN "PLAYING"
                            ELSE "PAUSED"]_vars

\* ESC resumed a run that was paused in the middle of a transition
C30_Witness ==
    /\ last.op = "run_keydown"
    /\ last.event = "K_ESCAPE"
    /\ game.state = "PLAYING"
    /\ game.active_hero
    /\ game.transition_manager.is_transitioning
    /\ game.transition_manager.elapsed > 0

(***************************************************************************)
(* C31: accumulated play time counts only the time spent in PLAYING: over  *)
(* the frames of run(), _play_time never decreases, and after every frame  *)
(* it is the clock time that went by while the state was PLAYING; time     *)
(* that went by in another state is never added.                           *)
(***************************************************************************)
C31_PlayTimeIsTimePlaying ==
    /\ [](last.op = "run_frame" => game.play_time = hist.played)
    /\ [][game'.play_time >= game.play_time]_vars

\* the camera is inside the current room
CameraInside(g) ==
    /\ g.camera_x >= 0 /\ g.camera_x <= MaxCameraX(g)
    /\ g.camera_y >= 0 /\ g.camera_y <= MaxCameraY(g)

\* the camera is at the clamped target
CameraAtTarget(g) ==
    /\ g.camera_x = Clamp(TargetX(g), MaxCameraX(g))
    /\ g.camera_y = Clamp(TargetY(g), MaxCameraY(g))

(***************************************************************************)
(* C32: the camera stays inside the room.  After every _update_camera and  *)
(* every transition completion that finds an active hero and a current     *)
(* room, 0 <= camera_x <= max(0, room width - window width) and            *)
(* 0 <= camera_y <= max(0, room height - window height), and a completion  *)
(* leaves the camera at the clamped target itself, not a tenth of the way  *)
(* towards it.  Without an active hero neither moves the camera.           *)
(***************************************************************************)
C32_CameraInsideRoom ==
    /\ []((/\ last.op \in {"update_camera", "complete_room_transition"}
           /\ game.active_hero
           /\ game.current_room # NoRoom) =>
              /\ CameraInside(game)
              /\ last.op = "complete_room_transition" =>
                     CameraAtTarget(game))
    /\ [][~game.active_hero =>
              /\ game'.camera_x = game.camera_x
              /\ game'.camera_y = game.camera_y]_vars

\* a completion put the camera at its target, away from the room's edges
\* and away from where a smooth step would have left it
C32_Witness ==
    /\ last.op = "complete_room_transition"
    /\ game.active_hero
    /\ game.camera_x > 0 /\ game.camera_x < MaxCameraX(game)
    /\ game.camera_x = TargetX(game)

\* the calls the loop over the enemies made on enemy i
CallsOn(i) == SelectSeq(last.enemy_calls, LAMBDA r : r.enemy = i)

C33_WitnessDead ==
    /\ last.op = "update" /\ last.idle
    /\ Len(game.enemies) = 1 /\ ~game.enemies[1].is_alive
    /\ last.enemy_calls = <<>>

\* g is a run that has just begun: the start room, one fresh hero, no
\* enemy, no projectile, no transition in flight
FreshRun(g) ==
    /\ g.current_room = StartRoomOf(g.dungeon_manager.template)
    /\ g.dungeon_manager.current_room = g.current_room
    /\ Cardinality(g.heroes) = 1
    /\ g.active_hero
    /\ g.hero.health = hero_max_health(g.hero.hero_type)
    /\ g.hero.is_alive
    /\ g.enemies = <<>>
    /\ g.projectiles = {}
    /\ ~g.transition_manager.is_transitioning

(***************************************************************************)
(* C34: a reset leaves nothing of the previous run behind.  The run that   *)
(* select_hero begins after _reset_game starts in the start room with one  *)
(* fresh hero, no enemy, no projectile in the projectile manager and no    *)
(* transition in flight, whatever the tick that ended the previous run     *)
(* did.                                                                    *)
(***************************************************************************)
C34_ResetLeavesNothing ==
    [][(game.state = "HERO_SELECT" /\ game'.state = "PLAYING") =>
           FreshRun(game')]_vars

(***************************************************************************)
(* C35: in every reachable state the hero collection holds at most one     *)
(* hero, and the active hero is either None or that hero, stored under the *)
(* selected hero type.                                                     *)
(***************************************************************************)
C35_ActiveHeroIsTheOneHero ==
    /\ Cardinality(game.heroes) <= 1
    /\ game.active_hero =>
           /\ game.heroes = {game.selected_hero_type}
           /\ game.hero.hero_type = game.selected_hero_type


(***************************************************************************)
(* C36: a Game starts in state PLAYING with an empty hero collection, and  *)
(* an update of a PLAYING game with no heroes and no transition in flight  *)
(* leaves the state GAME_OVER: the all-heroes-dead test holds of an empty  *)
(* collection.  GAME_OVER is entered although no hero was ever created.    *)
(***************************************************************************)
C36_NoHeroesIsGameOver ==
    /\ [](last.op = "init" =>
              /\ game.state = "PLAYING"
              /\ game.heroes = {})
    /\ [][(/\ last'.op = "update"
           /\ game.state = "PLAYING"
           /\ game.heroes = {}
           /\ ~game.transition_manager.is_transitioning)
              => game'.state = "GAME_OVER"]_vars

\* the first update of a fresh game ended it: no hero was ever created
C36_Witness ==
    /\ last.op = "update"
    /\ last.was_playing
    /\ game.heroes = {}
    /\ game.hero = NoHero
    /\ ~game.active_hero
    /\ game.state = "GAME_OVER"

(***************************************************************************)
(* C37: set_dungeon_template changes nothing of the running dungeon, and   *)
(* the template save_game writes to the file is the one the current        *)
(* dungeon was built from.                                                 *)
(***************************************************************************)
C37_SavedTemplateIsBuiltTemplate ==
    /\ [][last'.op = "set_dungeon_template" =>
              /\ game'.dungeon_manager = game.dungeon_manager
              /\ game'.current_room = game.current_room]_vars
    /\ []((last.op = "save_game" /\ last.file # NoFile) =>
              last.file.dungeon_template = game.dungeon_manager.template)

(***************************************************************************)
(* C38: set_game_state called with a value that is no GameState member     *)
(* raises ValueError and leaves the game as it was; called with a member   *)
(* it raises nothing and the state is that member, whatever the state was. *)
(***************************************************************************)
C38_OnlyGameStatesAccepted ==
    [][last'.op = "set_game_state_call" =>
           IF last'.new_state \in GameState
           THEN /\ last'.raised = None
                /\ game'.state = last'.new_state
           ELSE /\ last'.raised = "ValueError"
                /\ game' = game]_vars

\* a run was declared won by a call, and the next call, with the value of
\* a member instead of the member, was refused
C38_Witness ==
    /\ last.op = "set_game_state_call"
    /\ last.new_state = "2"
    /\ last.raised = "ValueError"
    /\ game.active_hero
    /\ game.state = "VICTORY"

\* the cells of a file, as <<row, column>> counted from 0
CellsIn(map) ==
    UNION {{<<r, k>> : k \in 0..(Len(map[r + 1]) - 1)} :
               r \in 0..(Len(map) - 1)}

GroundCells(map) ==
    {p \in CellsIn(map) : map[p[1] + 1][p[2] + 1] \in {"1", "2"}}

StartCells(map) == {p \in CellsIn(map) : map[p[1] + 1][p[2] + 1] = "0"}

\* p is read before q
ReadBefore(p, q) == p[1] < q[1] \/ (p[1] = q[1] /\ p[2] <= q[2])

\* the tiles of the map are one for each ground cell, at the place of the cell
TilesMatch(tm, map) ==
    /\ "tiles" \in tm.has
    /\ Len(tm.tiles) = Cardinality(GroundCells(map))
    /\ \A p \in GroundCells(map) :
           \E i \in 1..Len(tm.tiles) :
               /\ tm.tiles[i].x = p[2] * 16
               /\ tm.tiles[i].y = p[1] * 16
               /\ tm.tiles[i].image =
                      (IF map[p[1] + 1][p[2] + 1] = "1" THEN "ground.png"
                       ELSE "ground2.png")

\* the start is the place of the last start cell, (0, 0) without one
StartMatches(tm, map) ==
    IF StartCells(map) = {} THEN tm.start_x = 0 /\ tm.start_y = 0
    ELSE \E p \in StartCells(map) :
             /\ \A q \in StartCells(map) : ReadBefore(q, p)
             /\ tm.start_x = p[2] * 16
             /\ tm.start_y = p[1] * 16

\* the size is that of the last row by the number of rows
SizeMatches(tm, map) ==
    /\ {"map_w", "map_h"} \subseteq tm.has
    /\ tm.map_h = Len(map) * 16
    /\ tm.map_w = (IF Len(map) = 0 THEN 0 ELSE Len(map[Len(map)]) * 16)

(***************************************************************************)
(* C39: constructing a TileMap completes, and the map holds one tile for   *)
(* each '1' or '2' cell of the file at (column*16, row*16), the start of   *)
(* the last '0' cell, and the size (cells of the last row * 16, rows *     *)
(* 16); cells with other values give no tile and take their column.        *)
(***************************************************************************)
C39_TileMapFromCsv ==
    game.constructed =>
        /\ game.raised = None
        /\ TilesMatch(game.tile_map, game.map)
        /\ StartMatches(game.tile_map, game.map)
        /\ SizeMatches(game.tile_map, game.map)

\* what the object holds when the construction is given up
C39_LoadedBeforeRaise ==
    game.constructed =>
        /\ TilesMatch(game.tile_map, game.map)
        /\ StartMatches(game.tile_map, game.map)
        /\ SizeMatches(game.tile_map, game.map)

=============================================================================
